---- MODULE Spec2Model ----
(***************************************************************************)
(* State-machine model of the hyprland-dotfiles AI optimisation suite:     *)
(* the self-healing loop (core/self_healing.py), the adaptive              *)
(* configuration loop (core/adaptive_config.py), the optimizer loop        *)
(* (core/ai_optimizer.py), the orchestrator (main_orchestrator.py) and the *)
(* settings store of the command line tool (cli.py).                       *)
(*                                                                         *)
(* Percentages and temperatures are integers in hundredths of a unit       *)
(* (92.0 % is 9200); times are integer seconds.                            *)
(***************************************************************************)
EXTENDS Integers, Sequences, FiniteSets, TLC

VARIABLES
    env,                    \* which family of inputs the environment produces
    commands,               \* what the external commands of the run do
    now,                    \* time.time() as seen by the healing loop
    heal_pc,                \* position of SelfHealingSystem.start_monitoring
    heal_ticks,             \* iterations of the healing loop so far
    heal_sleep,             \* argument of the last asyncio.sleep of the loop
    monitoring_active,      \* SelfHealingSystem.monitoring_active
    system_metrics_history, \* SelfHealingSystem.system_metrics_history
    active_issues,          \* SelfHealingSystem.active_issues (insertion order)
    resolved_issues,        \* SelfHealingSystem.resolved_issues
    healing_history,        \* SelfHealingSystem.healing_history
    db_issues,              \* table system_issues
    db_metrics,             \* table system_metrics
    db_actions,             \* table healing_actions
    last_detected,          \* detections of the last tick, before deduplication
    last_created,           \* issues the last tick added to active_issues
    anow,                   \* time.time() as seen by the adaptive loop
    adapt_ticks,            \* iterations of the adaptive loop so far
    adapt_sleep,            \* argument of the last asyncio.sleep of the loop
    current_context,        \* AdaptiveConfigManager.current_context
    has_last_known_config,  \* hasattr(self, '_last_known_config')
    last_known_config,      \* AdaptiveConfigManager._last_known_config
    config_history,         \* AdaptiveConfigManager.config_history
    usage_patterns,         \* AdaptiveConfigManager.usage_patterns
    preference_profiles,    \* AdaptiveConfigManager.preference_profiles
    active_profile,         \* AdaptiveConfigManager.active_profile
    db_contexts,            \* table user_contexts
    db_changes,             \* table config_changes
    last_pass,              \* whether the last tick ran a learning pass
    cli_pc,                 \* position of one run of the command line tool
    config,                 \* contents of ai_config.json
    cli_key,                \* the key argument of the run
    cli_value,              \* the value argument of the run
    cli_result,             \* what _manage_config returned
    adapt_pc,               \* position of start_adaptive_learning
    opt_pc,                 \* position of AIOptimizer.start_optimization_loop
    onow,                   \* time.time() as seen by the optimization loop
    opt_ticks,              \* iterations of the optimization loop so far
    opt_sleep,              \* argument of the last asyncio.sleep of the loop
    metrics_history,        \* AIOptimizer.metrics_history
    optimization_history,   \* AIOptimizer.optimization_history
    last_optimization,      \* AIOptimizer.last_optimization
    opt_current_config,     \* AIOptimizer.current_config
    hyprctl_calls,          \* the invocations of the last _apply_configuration
    hyprland_keywords,      \* what "hyprctl keyword" has set in the compositor
    running,                \* HyprlandAIOrchestrator.running
    proc,                   \* the orchestrator process: asyncio.run(main())
    stop_task,              \* the stop_all_systems task of the signal handler
    orch_pc,                \* position of _orchestrator_monitoring_loop
    orch_ticks,             \* iterations of the monitoring loop so far
    orch_sleep,             \* argument of its last asyncio.sleep
    optimization_stats,     \* HyprlandAIOrchestrator.optimization_stats
    status_pc,              \* position of _status_reporting_loop
    status_ticks,           \* iterations of the reporting loop so far
    status_sleep,           \* argument of its last asyncio.sleep
    last_tick,              \* the loop that ran last and how its tick ended
    health_data,            \* the reports the last health score was computed from
    health_score,           \* the last result of _calculate_health_score
    emergency_log,          \* the emergency responses of the last monitoring tick
    read_config,            \* hyprland.conf as the last adaptive tick read it
    exit_status,            \* the exit status of the orchestrator process
    current_task,           \* the task the event loop is running, between two suspensions
    probe,                  \* the readings of the last healing tick and the source that failed
    heal_effects            \* what the strategies of the last healing tick did to the system

healVars == <<now, heal_pc, heal_ticks, heal_sleep, monitoring_active,
              system_metrics_history, active_issues, resolved_issues,
              healing_history, db_issues, db_metrics, db_actions,
              last_detected, last_created, probe, heal_effects>>

adaptVars == <<read_config, anow, adapt_ticks, adapt_sleep, current_context,
               has_last_known_config, last_known_config, config_history,
               usage_patterns, preference_profiles, active_profile,
               db_contexts, db_changes, last_pass>>

cliVars == <<cli_pc, config, cli_key, cli_value, cli_result>>

applyVars == <<opt_current_config, hyprctl_calls, hyprland_keywords>>

optVars == <<opt_pc, onow, opt_ticks, opt_sleep, metrics_history,
             optimization_history, last_optimization, applyVars>>

orchObs == <<health_data, health_score, emergency_log, exit_status, current_task>>

orchVars == <<running, proc, stop_task, orch_pc, orch_ticks, orch_sleep,
              optimization_stats, status_pc, status_ticks, status_sleep, orchObs>>

vars == <<env, commands, healVars, adaptVars, cliVars, adapt_pc, optVars,
          orchVars, last_tick>>

\* the exit status while the process has not ended
NoExit == -1

\* A task of the event loop takes a step while the loop runs.  A task created
\* by start_all_systems before a later constructor raised has its first step
\* queued ahead of the callback that stops the loop: it takes that one step.
scheduled(ticks) == proc = "running" \/ (proc = "stopping" /\ ticks = 0)

(***************************************************************************)
(* Bounds of the model.                                                    *)
(***************************************************************************)
MaxTicks == 4       \* iterations of the healing loop explored
MaxAdaptTicks == 5  \* iterations of the adaptive loop explored
MaxPruneTicks == 2  \* iterations of either loop explored over aged stores
MaxLoopTicks == 2   \* iterations of each loop explored when all five run
MaxIssues == 7      \* issues of one severity in a healing report
MaxProfileChanges == 10  \* changes in the bucket a profile is created from
MaxMerges == 1      \* learning passes merged into a profile
MaxKeyLen == 3      \* characters of a key argument
MaxValLen == 3      \* characters of a value argument
T0 == 10000000       \* time.time() when the process starts

(***************************************************************************)
(* Generic helpers.                                                        *)
(***************************************************************************)
Max(a, b) == IF a >= b THEN a ELSE b

Min(a, b) == IF a <= b THEN a ELSE b

Range(s) == {s[i] : i \in 1..Len(s)}

RECURSIVE SumSeq(_)
SumSeq(s) == IF s = <<>> THEN 0 ELSE s[1] + SumSeq(Tail(s))

\* the last n elements of s (list(s)[-n:])
LastN(s, n) == IF Len(s) <= n THEN s ELSE SubSeq(s, Len(s) - n + 1, Len(s))

(***************************************************************************)
(* self_healing.py: enumerations and configuration.                        *)
(***************************************************************************)
LOW == 1
MEDIUM == 2
HIGH == 3
CRITICAL == 4

NoneTS == -1                 \* resolution_timestamp = None

CPU_THRESHOLD == 9000        \* issue_detection_thresholds['cpu_usage']
MEMORY_THRESHOLD == 9500     \* issue_detection_thresholds['memory_usage']
TEMPERATURE_THRESHOLD == 8500 \* issue_detection_thresholds['temperature']
monitoring_interval == 30
HEAL_ERROR_SLEEP == 60
HISTORY_MAXLEN == 1440
HEAL_RETENTION == 604800     \* 7 * 24 * 3600

\* f"{v:.1f}": the value rounded to tenths
Fmt1(v) == (v + 5) \div 10

\* variant: no hysteresis band, resolved as soon as below the threshold
Hysteresis_none(threshold) == threshold

\* threshold * 0.8 (exact for the three thresholds: 72.0, 76.0, 68.0)
Hysteresis(threshold) == (threshold * 8) \div 10

(***************************************************************************)
(* Metric snapshots.  A failed collection returns only a timestamp and an  *)
(* error, so every .get() on it yields the caller's default.               *)
(***************************************************************************)
Quiet == [err |-> FALSE, cpu_usage |-> 5000, memory_usage |-> 5000,
          gpu_usage |-> 0, cpu_temperature |-> 4500, gpu_temperature |-> 0,
          compositor_responsive |-> TRUE]

ErrorSnapshot == [Quiet EXCEPT !.err = TRUE]

Get(m, field, default) == IF m.err THEN default ELSE m[field]

\* the snapshots _collect_system_metrics can return, by input family
Families ==
    [cpu  |-> {[Quiet EXCEPT !.cpu_usage = c] : c \in {7190, 7200, 9000, 9200, 9600}}
              \cup {ErrorSnapshot},
     mem  |-> {[Quiet EXCEPT !.memory_usage = c] : c \in {7590, 7600, 9600, 9900}}
              \cup {ErrorSnapshot},
     temp |-> {[Quiet EXCEPT !.cpu_temperature = c] : c \in {6799, 6800, 8604}}
              \cup {[Quiet EXCEPT !.gpu_temperature = 9100], ErrorSnapshot},
     stab |-> {Quiet, [Quiet EXCEPT !.compositor_responsive = FALSE],
               [Quiet EXCEPT !.compositor_responsive = FALSE, !.cpu_usage = 9200],
               ErrorSnapshot}]

\* the sources of _collect_system_metrics: psutil.cpu_percent and
\* psutil.virtual_memory are called in the body of the function, nvidia-smi
\* and psutil.sensors_temperatures in helpers with a handler of their own
Sources == {"none", "cpu_percent", "virtual_memory", "nvidia_smi",
            "sensors_temperatures"}

NoProbe == [readings |-> Quiet, failed |-> "none"]

\* _collect_system_metrics: the snapshot returned when the sources read
\* as given and one of them raises
collect_system_metrics(readings, failed) ==
    CASE failed \in {"cpu_percent", "virtual_memory"} -> ErrorSnapshot
      [] failed = "nvidia_smi" ->
            [readings EXCEPT !.gpu_usage = 0, !.gpu_temperature = 0]
      [] failed = "sensors_temperatures" -> [readings EXCEPT !.cpu_temperature = 0]
      [] OTHER -> readings

\* the readings of the run in which single sources fail
CollectReadings ==
    {[Quiet EXCEPT !.cpu_usage = c, !.cpu_temperature = t, !.gpu_usage = 3000,
                   !.gpu_temperature = 5000] : c \in {5000, 9200}, t \in {4500, 8604}}

\* Scenario A: the CPU readings fed to the detector, one per tick
ScenarioACpu == <<5000, 5500, 6000, 9200, 9300, 9400, 9500, 9600, 9700, 9800>>

\* the snapshots the next tick can collect
\* readings that make the CPU trend, the CPU threshold and the temperature
\* threshold detections happen
TrendReadings ==
    {[Quiet EXCEPT !.cpu_usage = c, !.cpu_temperature = x] :
         c \in {5000, 8800, 9200}, x \in {4500, 8604}}

\* the readings of the runs that look at the effects of the strategies
HogReadings ==
    {[Quiet EXCEPT !.cpu_usage = c, !.memory_usage = x] :
         c \in {8000, 9200}, x \in {5000, 9600}}
    \cup {[Quiet EXCEPT !.compositor_responsive = FALSE]}

HealInputs ==
    IF env = "scenarioA"
    THEN IF heal_ticks < Len(ScenarioACpu)
         THEN {[Quiet EXCEPT !.cpu_usage = ScenarioACpu[heal_ticks + 1],
                             !.memory_usage = x] : x \in {5000, 5500}}
         ELSE {}
    ELSE IF env \in DOMAIN Families THEN Families[env]
    ELSE IF env = "store" THEN Families.mem
    ELSE IF env = "hogs" THEN HogReadings
    ELSE IF env = "steps" THEN Families.mem
    ELSE IF env = "trend" THEN TrendReadings
    ELSE {Quiet}

\* what the sources deliver in the next tick and which of them fails; a
\* failed snapshot of the input families is a failure in the body
Probes ==
    IF env = "collect"
    THEN {[readings |-> r, failed |-> f] : r \in CollectReadings, f \in Sources}
    ELSE {IF m.err THEN [readings |-> Quiet, failed |-> "cpu_percent"]
          ELSE [readings |-> m, failed |-> "none"] : m \in HealInputs}

TickLimit ==
    IF env = "scenarioA" THEN Len(ScenarioACpu)
    ELSE IF env = "prune" THEN MaxPruneTicks
    ELSE IF env \in {"loops", "store", "collect", "startup", "steps"} THEN MaxLoopTicks
    ELSE MaxTicks

(***************************************************************************)
(* Issue construction.                                                     *)
(***************************************************************************)
NewIssue(kind, t, category, severity, title, fixable) ==
    [issue_id |-> <<kind, t>>, timestamp |-> t, category |-> category,
     severity |-> severity, title |-> title, auto_fixable |-> fixable,
     resolved |-> FALSE, resolution_attempts |-> 0,
     resolution_timestamp |-> NoneTS]

create_cpu_issue(m, t) ==
    LET cpu_usage == Get(m, "cpu_usage", 0)
    IN  NewIssue("cpu_high", t, "performance",
                 IF cpu_usage > 9500 THEN HIGH ELSE MEDIUM,
                 <<"High CPU Usage", Fmt1(cpu_usage)>>, TRUE)

create_memory_issue(m, t) ==
    LET memory_usage == Get(m, "memory_usage", 0)
    IN  NewIssue("memory_high", t, "memory",
                 IF memory_usage > 9800 THEN CRITICAL ELSE HIGH,
                 <<"High Memory Usage", Fmt1(memory_usage)>>, TRUE)

create_temperature_issue(m, t) ==
    LET max_temp == Max(Get(m, "cpu_temperature", 0), Get(m, "gpu_temperature", 0))
    IN  NewIssue("temp_high", t, "system",
                 IF max_temp > 9000 THEN CRITICAL ELSE HIGH,
                 <<"High Temperature", Fmt1(max_temp)>>, TRUE)

create_compositor_issue(m, t) ==
    NewIssue("compositor_hang", t, "stability", HIGH,
             <<"Compositor Not Responding", -1>>, TRUE)

\* (avg_second - avg_first) > threshold, halves split at len // 2
is_trending_up(values, threshold) ==
    IF Len(values) < 5 THEN FALSE
    ELSE LET h == Len(values) \div 2
             first_half == SubSeq(values, 1, h)
             second_half == SubSeq(values, h + 1, Len(values))
             n1 == Len(first_half)
             n2 == Len(second_half)
         IN  SumSeq(second_half) * n1 - SumSeq(first_half) * n2
                 > threshold * n1 * n2

detect_pattern_issues(hist, t) ==
    IF Len(hist) < 10 THEN <<>>
    ELSE LET recent_metrics == LastN(hist, 10)
             cpu_values == [i \in 1..10 |-> Get(recent_metrics[i], "cpu_usage", 0)]
             memory_values == [i \in 1..10 |-> Get(recent_metrics[i], "memory_usage", 0)]
         IN  (IF is_trending_up(cpu_values, 2000)
                 THEN <<NewIssue("cpu_trend", t, "performance", MEDIUM,
                                 <<"CPU Usage Trending Up", -1>>, FALSE)>>
                 ELSE <<>>)
             \o
             (IF is_trending_up(memory_values, 1500)
                 THEN <<NewIssue("memory_leak", t, "memory", MEDIUM,
                                 <<"Possible Memory Leak", -1>>, FALSE)>>
                 ELSE <<>>)

\* variant: duplicates recognised by issue_id instead of (category, title)
is_duplicate_issue_by_id(new_issue, active) ==
    \E i \in 1..Len(active) : active[i].issue_id = new_issue.issue_id

is_duplicate_issue(new_issue, active) ==
    \E i \in 1..Len(active) :
        /\ active[i].category = new_issue.category
        /\ active[i].title = new_issue.title

\* every detection of the tick, before the duplicate filter
raw_detections(m, hist, t) ==
    (IF Get(m, "cpu_usage", 0) > CPU_THRESHOLD
        THEN <<create_cpu_issue(m, t)>> ELSE <<>>)
    \o (IF Get(m, "memory_usage", 0) > MEMORY_THRESHOLD
        THEN <<create_memory_issue(m, t)>> ELSE <<>>)
    \o (IF Max(Get(m, "cpu_temperature", 0), Get(m, "gpu_temperature", 0))
              > TEMPERATURE_THRESHOLD
        THEN <<create_temperature_issue(m, t)>> ELSE <<>>)
    \o (IF ~Get(m, "compositor_responsive", TRUE)
        THEN <<create_compositor_issue(m, t)>> ELSE <<>>)
    \o detect_pattern_issues(hist, t)

detect_issues(m, hist, active, t) ==
    SelectSeq(raw_detections(m, hist, t),
              LAMBDA issue : ~is_duplicate_issue(issue, active))

(***************************************************************************)
(* Persistence (sqlite tables, primary keys as in _init_database).         *)
(***************************************************************************)
\* INSERT INTO system_metrics; timestamp is the primary key, a failing
\* insert is caught and logged
store_metrics(dbm, m, t) ==
    IF \E r \in dbm : r.timestamp = t THEN dbm
    ELSE dbm \cup {[timestamp |-> t,
                    cpu_usage |-> Get(m, "cpu_usage", 0),
                    memory_usage |-> Get(m, "memory_usage", 0),
                    temperature |-> Get(m, "cpu_temperature", 0)]}

\* INSERT INTO system_issues; issue_id is the primary key
store_issue(dbi, issue) ==
    IF \E r \in dbi : r.issue_id = issue.issue_id THEN dbi
    ELSE dbi \cup {issue}

\* UPDATE system_issues SET resolved, resolution_attempts, resolution_timestamp
update_issue_in_db(dbi, issue) ==
    {IF r.issue_id = issue.issue_id
        THEN [r EXCEPT !.resolved = issue.resolved,
                       !.resolution_attempts = issue.resolution_attempts,
                       !.resolution_timestamp = issue.resolution_timestamp]
        ELSE r : r \in dbi}

\* INSERT INTO healing_actions; action_id is the primary key
store_healing_action(dba, action) ==
    IF \E r \in dba : r.action_id = action.action_id THEN dba
    ELSE dba \cup {action}

(***************************************************************************)
(* The state of one SelfHealingSystem as a record, so that the steps of a  *)
(* tick compose (and a tick cut short by an exception keeps the effects of *)
(* the steps that ran).                                                    *)
(***************************************************************************)
HealState ==
    [hist |-> system_metrics_history, active |-> active_issues,
     resolved |-> resolved_issues, hh |-> healing_history,
     dbi |-> db_issues, dbm |-> db_metrics, dba |-> db_actions,
     created |-> <<>>]

\* deque(maxlen=1440).append
deque_append(d, x, maxlen) ==
    IF Len(d) >= maxlen THEN Append(Tail(d), x) ELSE Append(d, x)

\* metrics = await _collect_system_metrics(); history.append; _store_metrics
step_collect(S, m, t) ==
    [S EXCEPT !.hist = deque_append(S.hist, m, HISTORY_MAXLEN),
              !.dbm = store_metrics(S.dbm, m, t)]

\* self.active_issues[issue.issue_id] = issue
dict_put(active, issue) ==
    IF \E i \in 1..Len(active) : active[i].issue_id = issue.issue_id
    THEN [i \in 1..Len(active) |->
             IF active[i].issue_id = issue.issue_id THEN issue ELSE active[i]]
    ELSE Append(active, issue)

handle_new_issue(S, issue) ==
    [S EXCEPT !.active = dict_put(S.active, issue),
              !.dbi = store_issue(S.dbi, issue),
              !.created = Append(S.created, issue)]

RECURSIVE handle_new_issues(_, _)
handle_new_issues(S, issues) ==
    IF issues = <<>> THEN S
    ELSE handle_new_issues(handle_new_issue(S, Head(issues)), Tail(issues))

\* new_issues = await _detect_issues(metrics); for issue: _handle_new_issue
step_detect(S, m, t) ==
    handle_new_issues(S, detect_issues(m, S.hist, S.active, t))

\* variant: a missing metric reads as 0 (as True for the compositor), the
\* defaults of _detect_issues
is_issue_resolved_detect_defaults(issue, hist) ==
    LET current_metrics == IF hist = <<>> THEN ErrorSnapshot ELSE hist[Len(hist)]
    IN  CASE issue.category = "performance" ->
                Get(current_metrics, "cpu_usage", 0) < Hysteresis(CPU_THRESHOLD)
          [] issue.category = "memory" ->
                Get(current_metrics, "memory_usage", 0) < Hysteresis(MEMORY_THRESHOLD)
          [] issue.category = "system" ->
                IF issue.title[1] = "High Temperature"
                THEN Max(Get(current_metrics, "cpu_temperature", 0),
                         Get(current_metrics, "gpu_temperature", 0))
                        < Hysteresis(TEMPERATURE_THRESHOLD)
                ELSE FALSE
          [] issue.category = "stability" ->
                Get(current_metrics, "compositor_responsive", TRUE)
          [] OTHER -> FALSE

is_issue_resolved(issue, hist) ==
    LET current_metrics == IF hist = <<>> THEN ErrorSnapshot ELSE hist[Len(hist)]
    IN  CASE issue.category = "performance" ->
                Get(current_metrics, "cpu_usage", 10000) < Hysteresis(CPU_THRESHOLD)
          [] issue.category = "memory" ->
                Get(current_metrics, "memory_usage", 10000) < Hysteresis(MEMORY_THRESHOLD)
          [] issue.category = "system" ->
                IF issue.title[1] = "High Temperature"
                THEN Max(Get(current_metrics, "cpu_temperature", 10000),
                         Get(current_metrics, "gpu_temperature", 10000))
                        < Hysteresis(TEMPERATURE_THRESHOLD)
                ELSE FALSE
          [] issue.category = "stability" ->
                Get(current_metrics, "compositor_responsive", FALSE)
          [] OTHER -> FALSE

mark_resolved(issue, t) ==
    [issue EXCEPT !.resolved = TRUE, !.resolution_timestamp = t]

RECURSIVE update_issues_in_db(_, _)
update_issues_in_db(dbi, issues) ==
    IF issues = <<>> THEN dbi
    ELSE update_issues_in_db(update_issue_in_db(dbi, Head(issues)), Tail(issues))

\* _monitor_existing_issues
step_monitor(S, t) ==
    LET gone == SelectSeq(S.active, LAMBDA i : is_issue_resolved(i, S.hist))
        marked == [k \in 1..Len(gone) |-> mark_resolved(gone[k], t)]
    IN  [S EXCEPT !.active = SelectSeq(S.active,
                                 LAMBDA i : ~is_issue_resolved(i, S.hist)),
                  !.resolved = S.resolved \o marked,
                  !.dbi = update_issues_in_db(S.dbi, marked)]

(***************************************************************************)
(* Healing strategies (_initialize_healing_strategies), in list order.     *)
(***************************************************************************)
healing_strategies(category) ==
    CASE category = "performance" ->
            << [name |-> "reduce_animations", conditions |-> <<"cpu_usage > 85", "low_fps">>],
               [name |-> "disable_blur", conditions |-> <<"gpu_usage > 90", "low_fps">>],
               [name |-> "kill_resource_hogs", conditions |-> <<"memory_usage > 95">>] >>
      [] category = "stability" ->
            << [name |-> "restart_compositor",
                conditions |-> <<"frequent_crashes", "compositor_hang">>],
               [name |-> "reset_to_defaults", conditions |-> <<"persistent_issues">>] >>
      [] category = "graphics" ->
            << [name |-> "restart_gpu_driver",
                conditions |-> <<"gpu_hang", "display_corruption">>],
               [name |-> "adjust_refresh_rate",
                conditions |-> <<"display_issues", "gpu_overload">>] >>
      [] category = "memory" ->
            << [name |-> "clear_caches", conditions |-> <<"memory_usage > 90">>],
               [name |-> "enable_zswap", conditions |-> <<"memory_pressure">>] >>
      [] category = "audio" ->
            << [name |-> "restart_pipewire",
                conditions |-> <<"audio_glitches", "no_audio">>] >>
      [] OTHER -> <<>>

\* whether the writes to the database of a tick can fail in this run
StoreResults == IF env = "store" THEN {"ok", "fail"} ELSE {"ok"}

\* a tick of the healing loop all of whose statements on the database
\* failed: _store_metrics, _store_issue, _update_issue_in_db,
\* _store_healing_action and _cleanup_old_data log the error and return
heal_store_fails(S) ==
    [S EXCEPT !.dbi = db_issues, !.dbm = db_metrics, !.dba = db_actions]

\* what a command run by a strategy can report in this run
CommandResults == IF commands = "any" THEN {"ok", "fail"} ELSE {commands}

\* what the strategy's action coroutine can return: the stubs always report
\* failure, _reset_to_defaults always reports success, the rest depend on
\* the commands they run; every action catches its own exceptions
strategy_outcomes(name) ==
    CASE name \in {"restart_compositor", "restart_gpu_driver"} -> {"fail"}
      [] name = "reset_to_defaults" -> {"ok"}
      [] OTHER -> {"ok", "fail"}

\* the chain of substring tests of _evaluate_condition
evaluate_condition(condition, metrics, issue) ==
    CASE condition = "cpu_usage > 85" -> Get(metrics, "cpu_usage", 0) > 8500
      [] condition = "gpu_usage > 90" -> Get(metrics, "gpu_usage", 0) > 9000
      [] condition = "memory_usage > 95" -> Get(metrics, "memory_usage", 0) > 9500
      [] condition = "low_fps" -> TRUE
      [] condition = "frequent_crashes" -> issue.category = "stability"
      [] condition = "compositor_hang" -> ~Get(metrics, "compositor_responsive", TRUE)
      [] OTHER -> TRUE

should_apply_strategy(strategy, issue, hist) ==
    LET current_metrics == IF hist = <<>> THEN ErrorSnapshot ELSE hist[Len(hist)]
    IN  \A k \in 1..Len(strategy.conditions) :
            evaluate_condition(strategy.conditions[k], current_metrics, issue)

\* the retry ceiling of _perform_healing_actions
MAX_ATTEMPTS_GUARD == 2

\* variant: the ceiling test off by one (resolution_attempts > 3)
heal_eligible_off_by_one(issue) ==
    ~(~issue.auto_fixable \/ issue.resolution_attempts > MAX_ATTEMPTS_GUARD + 1)

\* variant: auto_fixable is not looked at
heal_eligible_any_issue(issue) ==
    ~(issue.resolution_attempts > MAX_ATTEMPTS_GUARD)

heal_eligible(issue) ==
    ~(~issue.auto_fixable \/ issue.resolution_attempts > MAX_ATTEMPTS_GUARD)

\* variant: the last strategy whose conditions all hold
chosen_strategy_last(issue, hist) ==
    LET strategies == healing_strategies(issue.category)
        ok == {k \in 1..Len(strategies) :
                  should_apply_strategy(strategies[k], issue, hist)}
    IN  IF ~heal_eligible(issue) \/ ok = {} THEN 0
        ELSE CHOOSE k \in ok : \A j \in ok : k >= j

\* index of the first strategy of the issue's category whose conditions all
\* hold, 0 when the issue is skipped or no strategy applies
chosen_strategy(issue, hist) ==
    LET strategies == healing_strategies(issue.category)
        ok == {k \in 1..Len(strategies) :
                  should_apply_strategy(strategies[k], issue, hist)}
    IN  IF ~heal_eligible(issue) \/ ok = {} THEN 0
        ELSE CHOOSE k \in ok : \A j \in ok : k <= j

\* _apply_healing_strategy: counter incremented on success, failure and
\* exception alike; the action is appended to the history and stored
healing_action(issue, strategy, outcome, t) ==
    [action_id |-> <<"heal", t, strategy.name>>, timestamp |-> t,
     issue_id |-> issue.issue_id, action_type |-> strategy.name,
     success |-> (outcome = "ok"), raised |-> (outcome = "raise")]

apply_healing_strategy(S, i, strategy, outcome, t) ==
    LET action == healing_action(S.active[i], strategy, outcome, t)
    IN  [S EXCEPT !.active[i].resolution_attempts = @ + 1,
                  !.hh = Append(S.hh, action),
                  !.dba = store_healing_action(S.dba, action)]

\* _perform_healing_actions over active_issues.items(), from position i on;
\* oc[i] is the outcome of the action run for the issue at position i
RECURSIVE perform_healing_actions(_, _, _, _)
perform_healing_actions(S, i, oc, t) ==
    IF i > Len(S.active) THEN S
    ELSE LET issue == S.active[i]
             k == chosen_strategy(issue, S.hist)
         IN  IF k = 0 THEN perform_healing_actions(S, i + 1, oc, t)
             ELSE perform_healing_actions(
                      apply_healing_strategy(S, i,
                          healing_strategies(issue.category)[k], oc[i], t),
                      i + 1, oc, t)

step_heal(S, oc, t) == perform_healing_actions(S, 1, oc, t)

\* the outcomes the actions of one tick can have
heal_outcomes(S) ==
    LET applied == {i \in 1..Len(S.active) : chosen_strategy(S.active[i], S.hist) # 0}
    IN  {oc \in [applied -> {"ok", "fail"}] :
            \A i \in applied :
                oc[i] \in CommandResults \cap strategy_outcomes(
                    healing_strategies(S.active[i].category)
                        [chosen_strategy(S.active[i], S.hist)].name)}

(***************************************************************************)
(* What the strategies do to the system.  Process loads are whole percent. *)
(***************************************************************************)
\* the process names _kill_resource_hogs never terminates
excluded == {"systemd", "kernel", "init", "kthreadd"}

\* psutil.process_iter as one tick sees it
ProcessTables ==
    IF env = "hogs"
    THEN {{},
          {[name |-> "firefox", cpu_percent |-> 10, memory_percent |-> 30]},
          {[name |-> "systemd", cpu_percent |-> 60, memory_percent |-> 5]},
          {[name |-> "Hyprland", cpu_percent |-> 70, memory_percent |-> 10],
           [name |-> "systemd", cpu_percent |-> 55, memory_percent |-> 5],
           [name |-> "firefox", cpu_percent |-> 20, memory_percent |-> 30],
           [name |-> "kitty", cpu_percent |-> 51, memory_percent |-> 1],
           [name |-> "bash", cpu_percent |-> 1, memory_percent |-> 1]}}
    ELSE {{}}

\* _kill_resource_hogs: the processes above either load limit, of these the
\* three with the largest cpu_percent + memory_percent, of these the ones
\* whose name is not excluded; psutil.Process(pid).terminate() for each
resource_hogs(procs) ==
    {q \in procs : q.cpu_percent > 50 \/ q.memory_percent > 20}

worst_offenders(procs) ==
    LET load(q) == q.cpu_percent + q.memory_percent
        hogs == resource_hogs(procs)
    IN  {q \in hogs : Cardinality({r \in hogs : load(r) > load(q)}) < 3}

kill_resource_hogs(procs) ==
    {q.name : q \in {r \in worst_offenders(procs) : r.name \notin excluded}}

\* the commands an action coroutine runs, in order; the two stubs and
\* _reset_to_defaults only write to the log
strategy_commands(name) ==
    CASE name = "reduce_animations" ->
            <<"hyprctl keyword animations:enabled no",
              "hyprctl keyword decoration:blur:enabled no">>
      [] name = "disable_blur" -> <<"hyprctl keyword decoration:blur:enabled no">>
      [] name = "clear_caches" ->
            <<"sudo sync", "sudo sh -c echo 3 > /proc/sys/vm/drop_caches">>
      [] name = "enable_zswap" ->
            <<"sudo modprobe zswap",
              "sudo sh -c echo 1 > /sys/module/zswap/parameters/enabled">>
      [] name = "restart_pipewire" ->
            <<"systemctl --user restart pipewire",
              "systemctl --user restart pipewire-pulse">>
      [] name = "adjust_refresh_rate" ->
            <<"hyprctl keyword monitor ,preferred,auto,1,60">>
      [] OTHER -> <<>>

\* what one action does: every command when it succeeds, the commands up to
\* the first one when that one fails; _kill_resource_hogs reports success
\* exactly when it terminated a process
strategy_effect(name, outcome, procs) ==
    [action_type |-> name,
     commands |-> IF outcome = "ok" \/ strategy_commands(name) = <<>>
                  THEN strategy_commands(name)
                  ELSE <<strategy_commands(name)[1]>>,
     terminated |-> IF name = "kill_resource_hogs" /\ outcome = "ok"
                    THEN kill_resource_hogs(procs) ELSE {}]

\* the positions of active_issues a strategy is applied to
applied_issues(S) ==
    {i \in 1..Len(S.active) : chosen_strategy(S.active[i], S.hist) # 0}

strategy_name_at(S, i) ==
    healing_strategies(S.active[i].category)[chosen_strategy(S.active[i], S.hist)].name

\* _kill_resource_hogs cannot report success without a process to terminate
outcomes_possible(S, oc, procs) ==
    \A i \in applied_issues(S) :
        (strategy_name_at(S, i) = "kill_resource_hogs" /\ oc[i] = "ok")
            => kill_resource_hogs(procs) # {}

\* the effects of _perform_healing_actions, in the order of active_issues
strategy_effects(S, oc, procs) ==
    LET applied == applied_issues(S)
        nth(k) == CHOOSE i \in applied : Cardinality({j \in applied : j < i}) = k - 1
    IN  [k \in 1..Cardinality(applied) |->
            strategy_effect(strategy_name_at(S, nth(k)), oc[nth(k)], procs)]

(***************************************************************************)
(* Pruning by age.                                                         *)
(***************************************************************************)
\* DELETE FROM system_metrics WHERE timestamp < cutoff
cleanup_metrics(dbm, cutoff) == {r \in dbm : ~(r.timestamp < cutoff)}

\* variant: issues deleted by age alone
cleanup_issues_by_age(dbi, cutoff) ==
    {r \in dbi : ~(r.timestamp < cutoff)}

\* DELETE FROM system_issues WHERE resolved = 1 AND resolution_timestamp < cutoff
cleanup_issues(dbi, cutoff) ==
    {r \in dbi : ~(r.resolved /\ r.resolution_timestamp < cutoff)}

\* SelfHealingSystem._cleanup_old_data
step_cleanup(S, t) ==
    LET cutoff_time == t - HEAL_RETENTION
    IN  [S EXCEPT !.dbm = cleanup_metrics(S.dbm, cutoff_time),
                  !.dbi = cleanup_issues(S.dbi, cutoff_time)]

(***************************************************************************)
(* The healing loop (start_monitoring).                                    *)
(***************************************************************************)
HealAssign(S, sleep) ==
    /\ system_metrics_history' = S.hist
    /\ active_issues' = S.active
    /\ resolved_issues' = S.resolved
    /\ healing_history' = S.hh
    /\ db_issues' = S.dbi
    /\ db_metrics' = S.dbm
    /\ db_actions' = S.dba
    /\ last_created' = S.created
    /\ heal_sleep' = sleep
    /\ now' = now + sleep
    /\ heal_ticks' = heal_ticks + 1

\* one iteration of the while loop that runs to the end and sleeps
\* monitoring_interval
HealTick ==
    /\ proc = "running"
    /\ heal_pc = "loop"
    /\ monitoring_active
    /\ heal_ticks < TickLimit
    /\ \E p \in Probes :
         LET m == collect_system_metrics(p.readings, p.failed)
             S1 == step_collect(HealState, m, now)
             S2 == step_detect(S1, m, now)
             S3 == step_monitor(S2, now)
         IN  \E oc \in heal_outcomes(S3), w \in StoreResults, procs \in ProcessTables :
               /\ outcomes_possible(S3, oc, procs)
               /\ heal_effects' = strategy_effects(S3, oc, procs)
               /\ HealAssign(IF w = "ok"
                             THEN step_cleanup(step_heal(S3, oc, now), now)
                             ELSE heal_store_fails(step_heal(S3, oc, now)),
                             monitoring_interval)
               /\ last_detected' = raw_detections(m, S1.hist, now)
               /\ probe' = p
    /\ last_tick' = <<"self_healing", "ok">>
    /\ UNCHANGED <<env, commands, heal_pc, monitoring_active, adaptVars, cliVars,
                   adapt_pc, optVars, orchVars>>

\* an iteration in which an exception leaves one of the steps: the steps
\* before it have run, the handler of the loop sleeps
HealTickRaise ==
    /\ proc = "running"
    /\ heal_pc = "loop"
    /\ monitoring_active
    /\ heal_ticks < TickLimit
    /\ \E p \in Probes, done \in 1..3 :
         LET m == collect_system_metrics(p.readings, p.failed)
             S1 == step_collect(HealState, m, now)
             S2 == step_detect(S1, m, now)
             S3 == step_monitor(S2, now)
         IN  /\ HealAssign(IF done = 1 THEN S1 ELSE IF done = 2 THEN S2 ELSE S3,
                           HEAL_ERROR_SLEEP)
             /\ last_detected' = IF done = 1 THEN <<>>
                                 ELSE raw_detections(m, S1.hist, now)
             /\ probe' = p
             /\ heal_effects' = <<>>
    /\ last_tick' = <<"self_healing", "error">>
    /\ UNCHANGED <<env, commands, heal_pc, monitoring_active, adaptVars, cliVars,
                   adapt_pc, optVars, orchVars>>

(***************************************************************************)
(* The iteration of start_monitoring statement by statement.  heal_pc is   *)
(* the step the task runs next ("loop": the test of the while loop, where  *)
(* the task also sleeps).  The event loop runs one task at a time, from    *)
(* one suspension of the task to its next one.                             *)
(***************************************************************************)
HealSteps == <<"loop", "detect", "monitor", "heal", "cleanup">>

\* variant: the strategies run their commands through asyncio subprocesses,
\* so the step that heals suspends as well
suspends_in_heal(step) == step \in {"heal", "cleanup"}

\* whether the task is suspended once the step is done: the coroutines the
\* steps await (_collect_system_metrics, _detect_issues, _handle_new_issue,
\* _monitor_existing_issues, _perform_healing_actions, the strategies'
\* actions, _cleanup_old_data) contain no await of a future, subprocess.run
\* and psutil block the thread; only asyncio.sleep after the cleanup suspends
suspends(step) == step = "cleanup"

StepState == [HealState EXCEPT !.created = last_created]

StepAssign(S) ==
    /\ system_metrics_history' = S.hist
    /\ active_issues' = S.active
    /\ resolved_issues' = S.resolved
    /\ healing_history' = S.hh
    /\ db_issues' = S.dbi
    /\ db_metrics' = S.dbm
    /\ db_actions' = S.dba
    /\ last_created' = S.created

StepMetrics == collect_system_metrics(probe.readings, probe.failed)

\* the next step of the iteration
HealStep ==
    /\ proc = "running"
    /\ current_task \in {"none", "self_healing"}
    /\ \/ /\ heal_pc = "loop"
          /\ monitoring_active
          /\ heal_ticks < TickLimit
          /\ \E p \in Probes :
               /\ StepAssign(step_collect(HealState,
                      collect_system_metrics(p.readings, p.failed), now))
               /\ probe' = p
          /\ last_detected' = <<>>
          /\ heal_effects' = <<>>
          /\ heal_pc' = "detect"
          /\ UNCHANGED <<now, heal_ticks, heal_sleep>>
       \/ /\ heal_pc = "detect"
          /\ StepAssign(step_detect(StepState, StepMetrics, now))
          /\ last_detected' = raw_detections(StepMetrics, system_metrics_history, now)
          /\ heal_pc' = "monitor"
          /\ UNCHANGED <<now, heal_ticks, heal_sleep, probe, heal_effects>>
       \/ /\ heal_pc = "monitor"
          /\ StepAssign(step_monitor(StepState, now))
          /\ heal_pc' = "heal"
          /\ UNCHANGED <<now, heal_ticks, heal_sleep, probe, heal_effects, last_detected>>
       \/ /\ heal_pc = "heal"
          /\ \E oc \in heal_outcomes(StepState), procs \in ProcessTables :
               /\ outcomes_possible(StepState, oc, procs)
               /\ heal_effects' = strategy_effects(StepState, oc, procs)
               /\ StepAssign(step_heal(StepState, oc, now))
          /\ heal_pc' = "cleanup"
          /\ UNCHANGED <<now, heal_ticks, heal_sleep, probe, last_detected>>
       \/ /\ heal_pc = "cleanup"
          /\ HealAssign(step_cleanup(StepState, now), monitoring_interval)
          /\ heal_pc' = "loop"
          /\ UNCHANGED <<probe, heal_effects, last_detected>>
    /\ current_task' = IF suspends(heal_pc) THEN "none" ELSE "self_healing"
    /\ last_tick' = <<"self_healing", "ok">>
    /\ UNCHANGED <<env, commands, monitoring_active, adaptVars, cliVars, adapt_pc,
                   optVars, running, proc, stop_task, orch_pc, orch_ticks,
                   orch_sleep, optimization_stats, status_pc, status_ticks,
                   status_sleep, health_data, health_score, emergency_log,
                   exit_status>>

\* an exception leaves the step the task is about to run: the handler of the
\* loop logs it and sleeps, the remaining steps of the iteration do not run
HealStepRaise ==
    /\ proc = "running"
    /\ current_task = "self_healing"
    /\ heal_pc \in {"detect", "monitor", "heal"}
    /\ HealAssign(StepState, HEAL_ERROR_SLEEP)
    /\ heal_pc' = "loop"
    /\ current_task' = "none"
    /\ last_tick' = <<"self_healing", "error">>
    /\ UNCHANGED <<env, commands, monitoring_active, probe, heal_effects,
                   last_detected, adaptVars, cliVars, adapt_pc,
                   optVars, running, proc, stop_task, orch_pc, orch_ticks,
                   orch_sleep, optimization_stats, status_pc, status_ticks,
                   status_sleep, health_data, health_score, emergency_log,
                   exit_status>>

\* while self.monitoring_active: the loop ends once the flag is down
HealExit ==
    /\ proc = "running"
    /\ heal_pc = "loop"
    /\ ~monitoring_active
    /\ heal_pc' = "done"
    /\ UNCHANGED <<env, commands, now, heal_ticks, heal_sleep, monitoring_active,
                   system_metrics_history, active_issues, resolved_issues,
                   healing_history, db_issues, db_metrics, db_actions,
                   last_detected, last_created, probe, heal_effects,
                   adaptVars, cliVars, adapt_pc,
                   optVars, orchVars, last_tick>>

HealInit ==
    /\ now = T0
    /\ heal_pc = "loop"
    /\ heal_ticks = 0
    /\ heal_sleep = 0
    /\ monitoring_active = TRUE
    /\ system_metrics_history = <<>>
    /\ active_issues = <<>>
    /\ resolved_issues = <<>>
    /\ healing_history = <<>>
    /\ db_issues = {}
    /\ db_metrics = {}
    /\ db_actions = {}
    /\ last_detected = <<>>
    /\ last_created = <<>>
    /\ probe = NoProbe
    /\ heal_effects = <<>>

(***************************************************************************)
(* adaptive_config.py: configuration.  Confidence scores are integers in   *)
(* tenths (0.7 is 7).                                                      *)
(***************************************************************************)
min_samples_for_learning == 10
MIN_PROFILE_CHANGES == 3
confidence_threshold == 7
ADAPT_INTERVAL == 60
ADAPT_ERROR_SLEEP == 60
ADAPT_RETENTION == 2592000   \* 30 * 24 * 3600
PATTERN_WINDOW == 100

NoContext == [timestamp |-> -1, hour_of_day |-> -1, user_activity_pattern |-> "none"]

NoProfile == <<"none">>

(***************************************************************************)
(* Insertion-ordered dictionaries: sequences of [k, v] entries.            *)
(***************************************************************************)
od_has(d, k) == \E i \in 1..Len(d) : d[i].k = k

od_get(d, k) == d[CHOOSE i \in 1..Len(d) : d[i].k = k].v

od_get_default(d, k, default) == IF od_has(d, k) THEN od_get(d, k) ELSE default

od_set(d, k, v) ==
    IF od_has(d, k)
    THEN [i \in 1..Len(d) |-> IF d[i].k = k THEN [k |-> k, v |-> v] ELSE d[i]]
    ELSE Append(d, [k |-> k, v |-> v])

\* d.update(e)
RECURSIVE od_update(_, _)
od_update(d, e) ==
    IF e = <<>> THEN d ELSE od_update(od_set(d, Head(e).k, Head(e).v), Tail(e))

(***************************************************************************)
(* Context capture.                                                        *)
(***************************************************************************)
GamingApps == {"steam"}
CodingApps == {"kitty"}
MediaApps == {"mpv"}

classify_activity_pattern(app, window_count, hour) ==
    IF app \in GamingApps THEN "gaming"
    ELSE IF app \in CodingApps THEN "development"
    ELSE IF app \in MediaApps THEN "media"
    ELSE IF window_count > 5 THEN "multitasking"
    ELSE IF 9 <= hour /\ hour <= 17 THEN "work"
    ELSE IF hour >= 22 \/ hour <= 6 THEN "night"
    ELSE "general"

capture_user_context(app, window_count, hour, t) ==
    [timestamp |-> t, hour_of_day |-> hour,
     user_activity_pattern |-> classify_activity_pattern(app, window_count, hour)]

\* f"{context.user_activity_pattern}_{context.hour_of_day // 4}"
pattern_key_of(context) ==
    <<context.user_activity_pattern, context.hour_of_day \div 4>>

\* what the environment shows the adaptive loop in one tick: the foreground
\* application, the hour of the day
AdaptContexts ==
    {[app |-> "kitty", hour |-> 9], [app |-> "kitty", hour |-> 10],
     [app |-> "steam", hour |-> 9]}

\* the keys of hyprland.conf, in file order
ConfigKeys == <<"animations:enabled", "decoration:rounding", "general:gaps_in",
                "general:gaps_out">>

\* the contents of hyprland.conf the user switches between
ConfigPresets ==
    {[k \in Range(ConfigKeys) |-> "A"],
     [k \in Range(ConfigKeys) |-> "B"],
     [k \in Range(ConfigKeys) |-> IF k = "animations:enabled" THEN "A" ELSE "C"]}

\* contents of hyprland.conf in which lines come and go
KeyPresets ==
    {[k \in keys |-> v] : keys \in {{}, {"general:gaps_in"},
                                     {"general:gaps_in", "general:gaps_out"}},
                          v \in {"A", "B"}}

(***************************************************************************)
(* The state of one AdaptiveConfigManager as a record.                     *)
(***************************************************************************)
AdaptState ==
    [ctx |-> current_context, has_last |-> has_last_known_config,
     last |-> last_known_config, hist |-> config_history,
     patterns |-> usage_patterns, profiles |-> preference_profiles,
     active |-> active_profile, dbc |-> db_contexts, dbch |-> db_changes,
     pass |-> FALSE]

\* context = await _capture_user_context(); self.current_context = context
astep_capture(A, ctx) ==
    [A EXCEPT !.ctx = ctx, !.dbc = Append(A.dbc, [timestamp |-> ctx.timestamp])]

config_change(key, old, new, ctx, source, t) ==
    [timestamp |-> t, config_key |-> key, old_value |-> old, new_value |-> new,
     context |-> ctx, change_source |-> source]

\* the loop of _detect_config_changes over current_config.items()
RECURSIVE detect_changes(_, _, _, _)
detect_changes(A, keys, current_config, t) ==
    IF keys = <<>> THEN A
    ELSE LET key == Head(keys)
             changed == /\ key \in DOMAIN current_config
                        /\ key \in DOMAIN A.last
                        /\ A.last[key] # current_config[key]
             change == config_change(key, A.last[key], current_config[key],
                                     A.ctx, "user", t)
         IN  detect_changes(
                 IF changed
                 THEN [A EXCEPT !.hist = Append(A.hist, change),
                                !.dbch = Append(A.dbch,
                                    [timestamp |-> t, config_key |-> key,
                                     new_value |-> current_config[key],
                                     change_source |-> "user"])]
                 ELSE A,
                 Tail(keys), current_config, t)

\* _detect_config_changes
astep_detect(A, current_config, t) ==
    LET A1 == IF A.has_last THEN detect_changes(A, ConfigKeys, current_config, t)
              ELSE A
    IN  [A1 EXCEPT !.has_last = TRUE, !.last = current_config]

\* the keys whose value differs from the one of the last snapshot, in order
changed_keys(A, current_config) ==
    SelectSeq(ConfigKeys, LAMBDA key : /\ key \in DOMAIN current_config
                                       /\ key \in DOMAIN A.last
                                       /\ A.last[key] # current_config[key])

\* _detect_config_changes when _store_config_change raises: the first change
\* is already in config_history, the handler logs, the snapshot is not taken
astep_detect_store_fails(A, current_config, t) ==
    LET changed == changed_keys(A, current_config)
    IN  IF ~A.has_last \/ changed = <<>> THEN astep_detect(A, current_config, t)
        ELSE [A EXCEPT !.hist = Append(A.hist,
                  config_change(changed[1], A.last[changed[1]],
                                current_config[changed[1]], A.ctx, "user", t))]

\* the outcomes of _detect_config_changes
detect_config_changes(A, current_config, t) ==
    {IF r = "ok" THEN astep_detect(A, current_config, t)
     ELSE astep_detect_store_fails(A, current_config, t) : r \in StoreResults}

\* pattern_data of _extract_usage_patterns, grouped in order of appearance
RECURSIVE group_changes(_, _)
group_changes(changes, acc) ==
    IF changes = <<>> THEN acc
    ELSE LET c == Head(changes)
             key == pattern_key_of(c.context)
             entry == [config_key |-> c.config_key, value |-> c.new_value,
                       timestamp |-> c.timestamp]
         IN  group_changes(Tail(changes),
                 od_set(acc, key, Append(od_get_default(acc, key, <<>>), entry)))

\* _extract_usage_patterns: self.usage_patterns.update(pattern_data)
extract_usage_patterns(hist, patterns) ==
    od_update(patterns, group_changes(LastN(hist, PATTERN_WINDOW), <<>>))

CountOf(values, v) == Cardinality({i \in 1..Len(values) : values[i] = v})

FirstIndexOf(values, v) == CHOOSE i \in 1..Len(values) :
    values[i] = v /\ \A j \in 1..Len(values) : values[j] = v => i <= j

\* Counter(values).most_common(1)[0][0]: the highest count, the value seen
\* first among equal counts
most_common(values) ==
    CHOOSE v \in Range(values) : \A w \in Range(values) :
        \/ CountOf(values, v) > CountOf(values, w)
        \/ /\ CountOf(values, v) = CountOf(values, w)
           /\ FirstIndexOf(values, v) <= FirstIndexOf(values, w)

\* config_preferences of one bucket, then the preferred value per key
RECURSIVE group_values(_, _)
group_values(changes, acc) ==
    IF changes = <<>> THEN acc
    ELSE group_values(Tail(changes),
             od_set(acc, Head(changes).config_key,
                    Append(od_get_default(acc, Head(changes).config_key, <<>>),
                           Head(changes).value)))

preferred_configs_of(changes) ==
    LET config_preferences == group_values(changes, <<>>)
    IN  [i \in 1..Len(config_preferences) |->
            [k |-> config_preferences[i].k,
             v |-> most_common(config_preferences[i].v)]]

\* len(changes) / 10 without the cap, in tenths
confidence_of_uncapped(n) == n

\* min(len(changes) / 10, 1.0), in tenths
confidence_of(n) == Min(n, 10)

\* hashlib.md5(pattern_key.encode()).hexdigest()[:8]
profile_id_of(pattern_key) == <<"md5", pattern_key>>

\* usage_frequency of an existing profile after a pass merged into it
merged_frequency(usage_frequency, changes) == usage_frequency + 1

\* one iteration of the loop of _update_preference_profiles
update_profile(profiles, pattern_key, changes, t) ==
    IF Len(changes) < MIN_PROFILE_CHANGES THEN profiles
    ELSE LET preferred_configs == preferred_configs_of(changes)
             profile_id == profile_id_of(pattern_key)
         IN  IF od_has(profiles, profile_id)
             THEN LET profile == od_get(profiles, profile_id)
                  IN  od_set(profiles, profile_id,
                          [profile EXCEPT
                              !.preferred_configs = od_update(@, preferred_configs),
                              !.usage_frequency = merged_frequency(@, changes),
                              !.last_used = t])
             ELSE od_set(profiles, profile_id,
                      [profile_id |-> profile_id,
                       pattern_key |-> pattern_key,
                       preferred_configs |-> preferred_configs,
                       usage_frequency |-> Len(changes),
                       last_used |-> t,
                       confidence_score |-> confidence_of(Len(changes))])

RECURSIVE update_preference_profiles(_, _, _)
update_preference_profiles(profiles, patterns, t) ==
    IF patterns = <<>> THEN profiles
    ELSE update_preference_profiles(
             update_profile(profiles, Head(patterns).k, Head(patterns).v, t),
             Tail(patterns), t)

\* _update_learning_models
astep_learn(A, t) ==
    IF Len(A.hist) < min_samples_for_learning THEN A
    ELSE LET patterns == extract_usage_patterns(A.hist, A.patterns)
         IN  [A EXCEPT !.patterns = patterns,
                       !.profiles = update_preference_profiles(A.profiles, patterns, t),
                       !.pass = TRUE]

\* _calculate_context_similarity, in hundredths
calculate_context_similarity(context, profile) ==
    IF profile.pattern_key = pattern_key_of(context)
    THEN profile.confidence_score * profile.usage_frequency
    ELSE IF context.user_activity_pattern = profile.pattern_key[1]
    THEN profile.confidence_score * 7
    ELSE 0

\* the loop of _find_best_profile: position of the best profile, its score
RECURSIVE best_profile_scan(_, _, _, _, _)
best_profile_scan(profiles, i, context, best, best_score) ==
    IF i > Len(profiles) THEN <<best, best_score>>
    ELSE LET score == calculate_context_similarity(context, profiles[i].v)
         IN  IF score > best_score
             THEN best_profile_scan(profiles, i + 1, context, i, score)
             ELSE best_profile_scan(profiles, i + 1, context, best, best_score)

\* _find_best_profile: position of the profile returned, 0 for None
find_best_profile(context, profiles) ==
    LET r == best_profile_scan(profiles, 1, context, 0, 0)
    IN  IF r[1] # 0 /\ r[2] > 50 THEN r[1] ELSE 0

\* the loop of _apply_profile_config: every key is applied with hyprctl and
\* recorded as an adaptive change; a failing hyprctl (CalledProcessError) is
\* only logged, a missing hyprctl ends the loop
RECURSIVE apply_profile_config(_, _, _)
apply_profile_config(A, configs, t) ==
    IF configs = <<>> \/ commands = "missing" THEN A
    ELSE apply_profile_config(
             [A EXCEPT !.hist = Append(A.hist,
                 config_change(Head(configs).k, "None", Head(configs).v,
                               A.ctx, "adaptive", t))],
             Tail(configs), t)

\* variant: the threshold test not strict
astep_apply_at_threshold(A, t) ==
    LET best == find_best_profile(A.ctx, A.profiles)
    IN  IF best # 0 /\ A.profiles[best].v.confidence_score >= confidence_threshold
        THEN [apply_profile_config(A, A.profiles[best].v.preferred_configs, t)
                 EXCEPT !.active = A.profiles[best].v.profile_id]
        ELSE A

\* _apply_adaptive_optimizations
astep_apply(A, t) ==
    LET best == find_best_profile(A.ctx, A.profiles)
    IN  IF best # 0 /\ A.profiles[best].v.confidence_score > confidence_threshold
        THEN [apply_profile_config(A, A.profiles[best].v.preferred_configs, t)
                 EXCEPT !.active = A.profiles[best].v.profile_id]
        ELSE A

\* DELETE FROM user_contexts / config_changes WHERE timestamp < cutoff
cleanup_rows(rows, cutoff) == SelectSeq(rows, LAMBDA r : ~(r.timestamp < cutoff))

\* the in-memory list keeps the changes with timestamp > cutoff
cleanup_config_history(hist, cutoff) ==
    SelectSeq(hist, LAMBDA change : change.timestamp > cutoff)

\* AdaptiveConfigManager._cleanup_old_data
astep_cleanup(A, t) ==
    LET cutoff_time == t - ADAPT_RETENTION
    IN  [A EXCEPT !.dbc = cleanup_rows(A.dbc, cutoff_time),
                  !.dbch = cleanup_rows(A.dbch, cutoff_time),
                  !.hist = cleanup_config_history(A.hist, cutoff_time)]

AdaptAssign(A, sleep) ==
    /\ current_context' = A.ctx
    /\ has_last_known_config' = A.has_last
    /\ last_known_config' = A.last
    /\ config_history' = A.hist
    /\ usage_patterns' = A.patterns
    /\ preference_profiles' = A.profiles
    /\ active_profile' = A.active
    /\ db_contexts' = A.dbc
    /\ db_changes' = A.dbch
    /\ last_pass' = A.pass
    /\ adapt_sleep' = sleep
    /\ anow' = anow + sleep
    /\ adapt_ticks' = adapt_ticks + 1

\* one iteration of start_adaptive_learning that runs to the end
AdaptTickLimit ==
    IF env = "prune" THEN MaxPruneTicks
    ELSE IF env \in {"loops", "store", "startup"} THEN MaxLoopTicks
    ELSE MaxAdaptTicks

\* what one tick sees: the foreground application, the hour, hyprland.conf
AdaptInputs ==
    IF env \in {"loops", "startup"}
    THEN {[app |-> "kitty", hour |-> 9,
           current_config |-> [k \in Range(ConfigKeys) |-> "A"]]}
    ELSE IF env = "keys"
    THEN {[app |-> "kitty", hour |-> 9, current_config |-> cfg] : cfg \in KeyPresets}
    ELSE IF env = "store"
    THEN {[app |-> "kitty", hour |-> 9, current_config |-> cfg] :
             cfg \in ConfigPresets}
    ELSE {[app |-> c.app, hour |-> c.hour, current_config |-> cfg] :
             c \in AdaptContexts, cfg \in ConfigPresets}

AdaptTick ==
    /\ scheduled(adapt_ticks)
    /\ adapt_pc = "loop"
    /\ adapt_ticks < AdaptTickLimit
    /\ \E c \in AdaptInputs :
         \E A1 \in {astep_capture(AdaptState,
                         capture_user_context(c.app, 0, c.hour, anow))} :
         \E A2 \in detect_config_changes(A1, c.current_config, anow) :
         \E A3 \in {astep_learn(A2, anow)} :
         \E A4 \in {astep_apply(A3, anow)} :
             /\ AdaptAssign(astep_cleanup(A4, anow), ADAPT_INTERVAL)
             /\ read_config' = c.current_config
    /\ last_tick' = <<"adaptive_config", "ok">>
    /\ UNCHANGED <<env, commands, healVars, cliVars, adapt_pc, optVars, orchVars>>

\* an iteration in which _capture_user_context raises: nothing else runs
AdaptTickRaise ==
    /\ scheduled(adapt_ticks)
    /\ adapt_pc = "loop"
    /\ adapt_ticks < AdaptTickLimit
    /\ AdaptAssign(AdaptState, ADAPT_ERROR_SLEEP)
    /\ last_tick' = <<"adaptive_config", "error">>
    /\ UNCHANGED <<read_config, env, commands, healVars, cliVars, adapt_pc, optVars, orchVars>>

AdaptInit ==
    /\ anow = T0
    /\ adapt_ticks = 0
    /\ adapt_sleep = 0
    /\ current_context = NoContext
    /\ has_last_known_config = FALSE
    /\ last_known_config = <<>>
    /\ config_history = <<>>
    /\ usage_patterns = <<>>
    /\ preference_profiles = <<>>
    /\ active_profile = NoProfile
    /\ db_contexts = <<>>
    /\ db_changes = <<>>
    /\ last_pass = FALSE
    /\ read_config = <<>>

(***************************************************************************)
(* cli.py: config set <key> <value>.  Texts are sequences of characters.   *)
(* The settings store is a function from key paths to nodes, a node being  *)
(* a nested map or a typed leaf.                                           *)
(***************************************************************************)
KeyChars == {"a", "b", "."}
ValChars == {"1", ".", "a", "-"}

Texts(chars, n) == UNION {[1..k -> chars] : k \in 1..n}

ScenarioKey == <<"a", "i", "_", "o", "p", "t", "i", "m", "i", "z", "e", "r", ".",
                 "l", "e", "a", "r", "n", "i", "n", "g", "_", "r", "a", "t", "e">>

KeyArgs == Texts(KeyChars, MaxKeyLen) \cup {ScenarioKey}

ValueArgs ==
    Texts(ValChars, MaxValLen) \cup
        {<<"0", ".", "0", "1">>, <<"t", "r", "u", "e">>, <<"T", "r", "u", "e">>,
         <<"F", "A", "L", "S", "E">>, <<"0", "1", "0">>}

Digits == {"0", "1", "2", "3", "4", "5", "6", "7", "8", "9"}

DigitValue(c) ==
    CASE c = "0" -> 0 [] c = "1" -> 1 [] c = "2" -> 2 [] c = "3" -> 3
      [] c = "4" -> 4 [] c = "5" -> 5 [] c = "6" -> 6 [] c = "7" -> 7
      [] c = "8" -> 8 [] c = "9" -> 9

\* str.lower(), on the capitals the arguments hold
lower_char(c) ==
    CASE c = "T" -> "t" [] c = "R" -> "r" [] c = "U" -> "u" [] c = "E" -> "e"
      [] c = "F" -> "f" [] c = "A" -> "a" [] c = "L" -> "l" [] c = "S" -> "s"
      [] OTHER -> c

lower(text) == [i \in 1..Len(text) |-> lower_char(text[i])]

\* key.split('.')
RECURSIVE split_from(_, _, _)
split_from(text, i, cur) ==
    IF i > Len(text) THEN <<cur>>
    ELSE IF text[i] = "." THEN <<cur>> \o split_from(text, i + 1, <<>>)
    ELSE split_from(text, i + 1, Append(cur, text[i]))

split(text) == split_from(text, 1, <<>>)

\* str.isdigit()
isdigit(text) == Len(text) > 0 /\ \A i \in 1..Len(text) : text[i] \in Digits

\* int(text) of a text of digits
RECURSIVE int_of(_)
int_of(text) ==
    IF text = <<>> THEN 0
    ELSE 10 * int_of(SubSeq(text, 1, Len(text) - 1)) + DigitValue(text[Len(text)])

\* whether float(text) succeeds, for texts of digits, dots, signs and letters:
\* an optional sign, then digits with at most one dot and at least one digit
float_parses(text) ==
    LET body == IF Len(text) > 0 /\ text[1] \in {"-", "+"} THEN Tail(text) ELSE text
        dots == {i \in 1..Len(body) : body[i] = "."}
    IN  /\ \A i \in 1..Len(body) : body[i] \in Digits \cup {"."}
        /\ Cardinality(dots) <= 1
        /\ \E i \in 1..Len(body) : body[i] \in Digits

\* a float as <<sign, n, scale>>, standing for sign * n / 10^scale with no
\* trailing zero in the fraction
RECURSIVE float_normal(_, _, _)
float_normal(sign, n, scale) ==
    IF scale > 0 /\ n % 10 = 0 THEN float_normal(sign, n \div 10, scale - 1)
    ELSE <<sign, n, scale>>

\* float(text) of a text that parses
float_of(text) ==
    LET negative == text[1] = "-"
        body == IF text[1] \in {"-", "+"} THEN Tail(text) ELSE text
        dots == {i \in 1..Len(body) : body[i] = "."}
        scale == IF dots = {} THEN 0 ELSE Len(body) - (CHOOSE i \in dots : TRUE)
        digits == SelectSeq(body, LAMBDA c : c \in Digits)
    IN  float_normal(IF negative THEN -1 ELSE 1, int_of(digits), scale)

Node(type, val) == [type |-> type, val |-> val]

DictNode == Node("dict", <<>>)

\* the conversion without its true/false branch
typed_value_no_bool(value) ==
    IF "." \in Range(value)
    THEN IF float_parses(value) THEN Node("float", float_of(value))
         ELSE Node("str", value)
    ELSE IF isdigit(value) THEN Node("int", int_of(value))
    ELSE Node("str", value)

\* the leaf stored for a value argument; the bare except around the
\* conversion stores the text when float(value) raises
typed_value(value) ==
    IF lower(value) \in {<<"t", "r", "u", "e">>, <<"f", "a", "l", "s", "e">>}
    THEN Node("bool", lower(value) = <<"t", "r", "u", "e">>)
    ELSE IF "." \in Range(value)
    THEN IF float_parses(value) THEN Node("float", float_of(value))
         ELSE Node("str", value)
    ELSE IF isdigit(value) THEN Node("int", int_of(value))
    ELSE Node("str", value)

IsPrefix(p, q) == Len(p) <= Len(q) /\ SubSeq(q, 1, Len(p)) = p

EmptyStore == <<>>

\* the set branch of _manage_config: the store written back and the result;
\* walking through a leaf raises and nothing is written
manage_config_set(store, key, value) ==
    LET keys == split(key)
        n == Len(keys)
        prefix(i) == SubSeq(keys, 1, i)
        raises == \E i \in 1..(n - 1) :
                      prefix(i) \in DOMAIN store /\ store[prefix(i)].type # "dict"
        kept == {q \in DOMAIN store : ~IsPrefix(keys, q)}
        paths == kept \cup {prefix(i) : i \in 1..n}
    IN  IF raises THEN [ok |-> FALSE, store |-> store]
        ELSE [ok |-> TRUE,
              store |-> [q \in paths |->
                            IF q = keys THEN typed_value(value)
                            ELSE IF q \in DOMAIN store THEN store[q]
                            ELSE DictNode]]

\* the contents ai_config.json can have before a run: absent or empty, a
\* leaf, a nested map
InitialStores ==
    {EmptyStore,
     [q \in {<<<<"a">>>>} |-> Node("int", 1)],
     [q \in {<<<<"a">>>>, <<<<"a">>, <<"b">>>>} |->
         IF Len(q) = 1 THEN DictNode ELSE Node("str", <<"x">>)]}

\* one run of "config set <key> <value>"
ConfigSet ==
    /\ cli_pc = "start"
    /\ \E key \in KeyArgs, value \in ValueArgs :
         LET r == manage_config_set(config, key, value)
         IN  /\ config' = r.store
             /\ cli_result' = r.ok
             /\ cli_key' = key
             /\ cli_value' = value
    /\ cli_pc' = "done"
    /\ UNCHANGED <<env, commands, healVars, adaptVars, adapt_pc, optVars, orchVars,
                   last_tick>>

CliInit ==
    /\ cli_pc = "start"
    /\ config = EmptyStore
    /\ cli_key = <<>>
    /\ cli_value = <<>>
    /\ cli_result = FALSE

(***************************************************************************)
(* ai_optimizer.py: the optimization loop.                                 *)
(***************************************************************************)
OPT_INTERVAL == 30
OPT_ERROR_SLEEP == 60
OPT_HISTORY_MAXLEN == 10000
OPT_MIN_SAMPLES == 10
OPT_PERIOD == 300

\* what _collect_metrics returns in one tick
OptInputs == {[cpu_usage |-> 5000, memory_usage |-> 5000]}

\* _should_optimize
should_optimize(history, last, t) ==
    IF Len(history) < OPT_MIN_SAMPLES THEN FALSE
    ELSE LET recent_metrics == LastN(history, 10)
             cpu == [i \in 1..Len(recent_metrics) |-> recent_metrics[i].cpu_usage]
             mem == [i \in 1..Len(recent_metrics) |-> recent_metrics[i].memory_usage]
         IN  \/ SumSeq(cpu) > 8000 * Len(recent_metrics)
             \/ SumSeq(mem) > 8500 * Len(recent_metrics)
             \/ last = NoneTS
             \/ t - last > OPT_PERIOD

\* the keys of AIOptimizer.config_ranges that are followed, in dict order
OptConfigKeys ==
    << <<"animations", "enabled">>, <<"decoration", "rounding">>, <<"misc", "vfr">> >>

config_ranges ==
    [key \in Range(OptConfigKeys) |->
        IF key = <<"decoration", "rounding">> THEN <<0, 20>> ELSE <<0, 1>>]

\* _generate_random_config: every key of config_ranges with a value of its
\* range (the two ends are followed)
generate_random_config ==
    {[i \in 1..Len(OptConfigKeys) |->
         [k |-> OptConfigKeys[i], v |-> config_ranges[OptConfigKeys[i]][end[i]]]] :
     end \in [1..Len(OptConfigKeys) -> {1, 2}]}

\* _predict_optimal_config: the best of the candidates, {} when it fails
predict_optimal_config == generate_random_config \cup {<<>>}

\* f"{'yes' if value else 'no'}" and f"{value}"
yes_no(value) == [fmt |-> "yesno", n |-> IF value # 0 THEN 1 ELSE 0]
plain(value) == [fmt |-> "value", n |-> value]

\* the line _apply_configuration generates for one item of the config
config_line(key, value) ==
    LET section == key[1]
        param == key[2]
        text == IF section = "animations"
                THEN IF param = "enabled" THEN yes_no(value) ELSE plain(value)
                ELSE IF section = "decoration"
                THEN IF param \in {"blur:enabled", "drop_shadow"}
                     THEN yes_no(value) ELSE plain(value)
                ELSE IF section = "general" THEN plain(value)
                ELSE yes_no(value)
    IN  [keyword |-> key, value |-> text]

config_lines(new_config) ==
    [i \in 1..Len(new_config) |-> config_line(new_config[i].k, new_config[i].v)]

\* variant: subprocess.run without check=True, every line is issued
RECURSIVE run_lines_unchecked(_, _, _)
run_lines_unchecked(lines, results, R) ==
    IF lines = <<>> THEN R
    ELSE LET line == Head(lines)
             done == Head(results) = "ok"
             calls == Append(R.calls, [keyword |-> line.keyword,
                                       value |-> line.value, ok |-> done])
             keywords == IF done THEN [R.keywords EXCEPT ![line.keyword] = line.value]
                         ELSE R.keywords
         IN  run_lines_unchecked(Tail(lines), Tail(results),
                                 [R EXCEPT !.calls = calls, !.keywords = keywords])

\* the loop "for line in config_lines: subprocess.run(cmd, check=True, ...)":
\* the first failing invocation raises and ends the loop
RECURSIVE run_lines(_, _, _)
run_lines(lines, results, R) ==
    IF lines = <<>> THEN R
    ELSE LET line == Head(lines)
             done == Head(results) = "ok"
             calls == Append(R.calls, [keyword |-> line.keyword,
                                       value |-> line.value, ok |-> done])
         IN  IF done
             THEN run_lines(Tail(lines), Tail(results),
                            [R EXCEPT !.calls = calls,
                                      !.keywords = [@ EXCEPT ![line.keyword] = line.value]])
             ELSE [R EXCEPT !.calls = calls, !.raised = TRUE]

\* _apply_configuration: current_config is assigned after the loop, inside
\* the try
apply_configuration(new_config, results) ==
    LET R == run_lines(config_lines(new_config), results,
                       [calls |-> <<>>, keywords |-> hyprland_keywords,
                        raised |-> FALSE])
    IN  [current_config |-> IF R.raised THEN opt_current_config ELSE new_config,
         calls |-> R.calls,
         keywords |-> R.keywords]

\* no hyprctl keyword has been issued: the compositor has the user's settings
ApplyInit ==
    /\ opt_current_config = <<>>
    /\ hyprctl_calls = <<>>
    /\ hyprland_keywords = [key \in Range(OptConfigKeys) |-> [fmt |-> "conf", n |-> 0]]

\* one iteration of start_optimization_loop that runs to the end
OptTick ==
    /\ scheduled(opt_ticks)
    /\ opt_pc = "loop"
    /\ opt_ticks < MaxLoopTicks
    /\ \E m \in OptInputs :
         LET history == deque_append(metrics_history, m, OPT_HISTORY_MAXLEN)
             optimize == should_optimize(history, last_optimization, onow)
         IN  /\ metrics_history' = history
             /\ last_optimization' = IF optimize THEN onow ELSE last_optimization
             /\ IF optimize
                THEN \E optimal_config \in predict_optimal_config :
                     \E results \in [1..Len(optimal_config) -> CommandResults] :
                        LET applied == apply_configuration(optimal_config, results)
                        IN  /\ opt_current_config' = applied.current_config
                            /\ hyprctl_calls' = applied.calls
                            /\ hyprland_keywords' = applied.keywords
                            /\ optimization_history' =
                                   Append(optimization_history,
                                          [timestamp |-> onow, config |-> optimal_config])
                ELSE UNCHANGED <<optimization_history, applyVars>>
    /\ opt_sleep' = OPT_INTERVAL
    /\ onow' = onow + OPT_INTERVAL
    /\ opt_ticks' = opt_ticks + 1
    /\ last_tick' = <<"ai_optimizer", "ok">>
    /\ UNCHANGED <<env, commands, healVars, adaptVars, cliVars, adapt_pc, opt_pc,
                   orchVars>>

\* an iteration in which _collect_metrics raises: nothing is appended
OptTickRaise ==
    /\ scheduled(opt_ticks)
    /\ opt_pc = "loop"
    /\ opt_ticks < MaxLoopTicks
    /\ opt_sleep' = OPT_ERROR_SLEEP
    /\ onow' = onow + OPT_ERROR_SLEEP
    /\ opt_ticks' = opt_ticks + 1
    /\ last_tick' = <<"ai_optimizer", "error">>
    /\ UNCHANGED <<env, commands, healVars, adaptVars, cliVars, adapt_pc, opt_pc,
                   metrics_history, optimization_history, last_optimization,
                   applyVars, orchVars>>

(***************************************************************************)
(* main_orchestrator.py: the two loops of the orchestrator, the signal     *)
(* handler, stop_all_systems.                                              *)
(***************************************************************************)
ORCH_INTERVAL == 60
STATUS_INTERVAL == 600

\* _update_statistics
update_statistics(stats) ==
    LET s1 == IF opt_pc # "off"
              THEN [stats EXCEPT !.total_optimizations = Len(optimization_history)]
              ELSE stats
        s2 == IF adapt_pc # "off"
              THEN [s1 EXCEPT !.adaptive_changes = Len(config_history)]
              ELSE s1
    IN  [s2 EXCEPT !.healing_actions = Len(healing_history)]

\* an average as the least integer not below it, so that "average > 90" is
\* exact on hundredths
AverageOf(values) ==
    IF values = <<>> THEN 0 ELSE (SumSeq(values) + Len(values) - 1) \div Len(values)

NoHealthData ==
    [ai_optimizer |-> FALSE, avg_cpu |-> 0, avg_memory |-> 0,
     adaptive_config |-> FALSE, config_changes |-> 0,
     self_healing |-> FALSE, critical_issues |-> 0, high_priority_issues |-> 0]

\* health_data of _monitor_system_health: what _calculate_health_score reads
\* of get_optimization_report, get_adaptation_report and get_healing_report
collect_health_data ==
    LET recent_metrics == LastN(metrics_history, 20)
    IN  [ai_optimizer |-> opt_pc # "off",
         avg_cpu |-> IF opt_pc = "off" THEN 0
                     ELSE AverageOf([i \in 1..Len(recent_metrics) |->
                                        recent_metrics[i].cpu_usage]),
         avg_memory |-> IF opt_pc = "off" THEN 0
                        ELSE AverageOf([i \in 1..Len(recent_metrics) |->
                                           recent_metrics[i].memory_usage]),
         adaptive_config |-> adapt_pc # "off",
         config_changes |-> IF adapt_pc = "off" THEN 0 ELSE Len(config_history),
         self_healing |-> TRUE,
         critical_issues |-> Cardinality({i \in 1..Len(active_issues) :
                                 active_issues[i].severity = CRITICAL}),
         high_priority_issues |-> Cardinality({i \in 1..Len(active_issues) :
                                      active_issues[i].severity = HIGH})]

NoScore == <<0, 0>>

\* the healing sub-score without its floor
healing_score_unfloored(hd) ==
    90 - (hd.critical_issues * 15 + hd.high_priority_issues * 10)

\* max(healing_score, 0)
healing_score(hd) ==
    Max(90 - (hd.critical_issues * 15 + hd.high_priority_issues * 10), 0)

\* _calculate_health_score: <<sum of the components, number of components>>,
\* the score being their quotient; 75 when there is no component
calculate_health_score(hd) ==
    LET ai_score == 80 - (IF hd.avg_cpu > 9000 THEN 20 ELSE 0)
                       - (IF hd.avg_memory > 9000 THEN 20 ELSE 0)
        adaptive_score == 80 + (IF hd.config_changes > 0 THEN 10 ELSE 0)
        score_components ==
            (IF hd.ai_optimizer THEN <<ai_score>> ELSE <<>>)
            \o (IF hd.adaptive_config THEN <<adaptive_score>> ELSE <<>>)
            \o (IF hd.self_healing THEN <<healing_score(hd)>> ELSE <<>>)
    IN  IF score_components = <<>> THEN <<75, 1>>
        ELSE <<SumSeq(score_components), Len(score_components)>>

\* the lower-case words of the titles the detectors produce
TitleWords(title) ==
    CASE title[1] = "High CPU Usage" -> {"high", "cpu", "usage"}
      [] title[1] = "High Memory Usage" -> {"high", "memory", "usage"}
      [] title[1] = "High Temperature" -> {"high", "temperature"}
      [] title[1] = "Compositor Not Responding" -> {"compositor", "not", "responding"}
      [] title[1] = "CPU Usage Trending Up" -> {"cpu", "usage", "trending", "up"}
      [] title[1] = "Possible Memory Leak" -> {"possible", "memory", "leak"}
      [] OTHER -> {}

\* the commands of _emergency_performance_reduction
PerformanceReduction ==
    <<<<"hyprctl", "keyword", "animations:enabled", "no">>,
      <<"hyprctl", "keyword", "decoration:blur:enabled", "no">>,
      <<"hyprctl", "keyword", "decoration:drop_shadow", "no">>,
      <<"hyprctl", "keyword", "misc:vfr", "yes">>>>

\* the commands of _emergency_memory_cleanup
MemoryCleanup ==
    <<<<"sync">>, <<"sudo", "sh", "-c", "echo 3 > /proc/sys/vm/drop_caches">>>>

\* the response without the test on the title
handle_critical_issue_any_title(issue) == PerformanceReduction

\* _handle_critical_issue: the commands run for one critical issue
handle_critical_issue(issue) ==
    IF "temperature" \in TitleWords(issue.title) THEN PerformanceReduction
    ELSE IF "memory" \in TitleWords(issue.title) THEN MemoryCleanup
    ELSE <<>>

\* variant: issues that have reached the retry ceiling get no response
handle_critical_issues_under_ceiling(active) ==
    LET critical_issues ==
            SelectSeq(active, LAMBDA issue : issue.severity >= 4
                          /\ issue.resolution_attempts <= MAX_ATTEMPTS_GUARD)
    IN  [i \in 1..Len(critical_issues) |->
            [issue_id |-> critical_issues[i].issue_id,
             commands |-> handle_critical_issue(critical_issues[i])]]

\* _handle_critical_issues: one response per active issue of severity >= 4
handle_critical_issues(active) ==
    LET critical_issues == SelectSeq(active, LAMBDA issue : issue.severity >= 4)
    IN  [i \in 1..Len(critical_issues) |->
            [issue_id |-> critical_issues[i].issue_id,
             commands |-> handle_critical_issue(critical_issues[i])]]

\* one iteration of _orchestrator_monitoring_loop
OrchTick ==
    /\ proc = "running"
    /\ current_task = "none"
    /\ orch_pc = "loop"
    /\ running
    /\ orch_ticks < MaxLoopTicks
    /\ health_data' = collect_health_data
    /\ health_score' = calculate_health_score(collect_health_data)
    /\ optimization_stats' = update_statistics(optimization_stats)
    /\ emergency_log' = handle_critical_issues(active_issues)
    /\ orch_sleep' = ORCH_INTERVAL
    /\ orch_ticks' = orch_ticks + 1
    /\ last_tick' = <<"orchestrator", "ok">>
    /\ UNCHANGED <<env, commands, healVars, adaptVars, cliVars, adapt_pc, optVars,
                   running, proc, stop_task, orch_pc, status_pc, status_ticks,
                   status_sleep, exit_status, current_task>>

\* _calculate_health_score on the reports at hand
HealthEval ==
    /\ env = "health"
    /\ health_score = NoScore
    /\ health_score' = calculate_health_score(health_data)
    /\ UNCHANGED <<env, commands, healVars, adaptVars, cliVars, adapt_pc, optVars,
                   running, proc, stop_task, orch_pc, orch_ticks, orch_sleep,
                   optimization_stats, status_pc, status_ticks, status_sleep,
                   last_tick, health_data, emergency_log, exit_status, current_task>>

\* while self.running: the monitoring loop ends once the flag is down
OrchExit ==
    /\ proc = "running"
    /\ orch_pc = "loop"
    /\ ~running
    /\ orch_pc' = "done"
    /\ UNCHANGED <<orchObs, env, commands, healVars, adaptVars, cliVars, adapt_pc, optVars,
                   running, proc, stop_task, orch_ticks, orch_sleep,
                   optimization_stats, status_pc, status_ticks, status_sleep,
                   last_tick>>

\* one iteration of _status_reporting_loop
StatusTick ==
    /\ proc = "running"
    /\ current_task = "none"
    /\ status_pc = "loop"
    /\ running
    /\ status_ticks < MaxLoopTicks
    /\ status_sleep' = STATUS_INTERVAL
    /\ status_ticks' = status_ticks + 1
    /\ last_tick' = <<"status_reporter", "ok">>
    /\ UNCHANGED <<orchObs, env, commands, healVars, adaptVars, cliVars, adapt_pc, optVars,
                   running, proc, stop_task, orch_pc, orch_ticks, orch_sleep,
                   optimization_stats, status_pc>>

\* while self.running: the reporting loop ends once the flag is down
StatusExit ==
    /\ proc = "running"
    /\ status_pc = "loop"
    /\ ~running
    /\ status_pc' = "done"
    /\ UNCHANGED <<orchObs, env, commands, healVars, adaptVars, cliVars, adapt_pc, optVars,
                   running, proc, stop_task, orch_pc, orch_ticks, orch_sleep,
                   optimization_stats, status_ticks, status_sleep, last_tick>>

\* a task that asyncio.run cancels while it sleeps between two ticks
cancelled(pc) == IF pc = "loop" THEN "cancelled" ELSE pc

\* SIGINT or SIGTERM: the handler creates the stop_all_systems task and calls
\* sys.exit(0).  SystemExit is raised in whatever the main thread runs.
\* Raised in the event loop or in code under "except Exception", it leaves
\* run_until_complete: asyncio.run cancels every task, the finally of main
\* runs stop_all_systems and the process ends.
SignalExit ==
    /\ proc = "running"
    /\ stop_task = "none"
    /\ stop_task' = "cancelled"
    /\ heal_pc' = cancelled(heal_pc)
    /\ adapt_pc' = cancelled(adapt_pc)
    /\ opt_pc' = cancelled(opt_pc)
    /\ orch_pc' = cancelled(orch_pc)
    /\ status_pc' = cancelled(status_pc)
    /\ running' = FALSE
    /\ monitoring_active' = FALSE
    /\ proc' = "exited"
    /\ exit_status' = 0
    /\ UNCHANGED <<current_task, health_data, health_score, emergency_log, env, commands, now, heal_ticks, heal_sleep,
                   system_metrics_history, active_issues, resolved_issues,
                   healing_history, db_issues, db_metrics, db_actions,
                   last_detected, last_created, probe, heal_effects,
                   adaptVars, cliVars, onow,
                   opt_ticks, opt_sleep, metrics_history, optimization_history,
                   last_optimization, applyVars, orch_ticks, orch_sleep, optimization_stats,
                   status_ticks, status_sleep, last_tick>>

\* Raised inside one of the bare "except:" blocks of a tick (the hyprctl and
\* sensor probes), SystemExit is swallowed: the tick goes on and the task of
\* the handler stays scheduled.
SignalSwallowed ==
    /\ proc = "running"
    /\ stop_task = "none"
    /\ stop_task' = "pending"
    /\ UNCHANGED <<orchObs, env, commands, healVars, adaptVars, cliVars, adapt_pc, optVars,
                   running, proc, orch_pc, orch_ticks, orch_sleep,
                   optimization_stats, status_pc, status_ticks, status_sleep,
                   last_tick>>

\* stop_all_systems, run as the task of the handler
StopAllSystems ==
    /\ proc = "running"
    /\ stop_task = "pending"
    /\ stop_task' = "done"
    /\ running' = FALSE
    /\ monitoring_active' = FALSE
    /\ UNCHANGED <<orchObs, env, commands, now, heal_pc, heal_ticks, heal_sleep,
                   system_metrics_history, active_issues, resolved_issues,
                   healing_history, db_issues, db_metrics, db_actions,
                   last_detected, last_created, probe, heal_effects,
                   adaptVars, cliVars, adapt_pc,
                   optVars, proc, orch_pc, orch_ticks, orch_sleep,
                   optimization_stats, status_pc, status_ticks, status_sleep,
                   last_tick>>

\* asyncio.gather returns once every task has returned; start_all_systems
\* and main return and the process ends
MainReturn ==
    /\ proc = "running"
    /\ \A pc \in {heal_pc, adapt_pc, opt_pc, orch_pc, status_pc} :
           pc \in {"done", "off"}
    /\ proc' = "exited"
    /\ running' = FALSE
    /\ monitoring_active' = FALSE
    /\ exit_status' = 0
    /\ UNCHANGED <<current_task, health_data, health_score, emergency_log, env, commands, now, heal_pc, heal_ticks, heal_sleep,
                   system_metrics_history, active_issues, resolved_issues,
                   healing_history, db_issues, db_metrics, db_actions,
                   last_detected, last_created, probe, heal_effects,
                   adaptVars, cliVars, adapt_pc,
                   optVars, stop_task, orch_pc, orch_ticks, orch_sleep,
                   optimization_stats, status_pc, status_ticks, status_sleep,
                   last_tick>>

\* the state after start_all_systems has created the five tasks
LoopsInit ==
    /\ adapt_pc = "loop"
    /\ opt_pc = "loop"
    /\ onow = T0
    /\ opt_ticks = 0
    /\ opt_sleep = 0
    /\ metrics_history = <<>>
    /\ optimization_history = <<>>
    /\ last_optimization = NoneTS
    /\ ApplyInit
    /\ running = TRUE
    /\ proc = "running"
    /\ stop_task = "none"
    /\ orch_pc = "loop"
    /\ orch_ticks = 0
    /\ orch_sleep = 0
    /\ optimization_stats = [total_optimizations |-> 0, successful_optimizations |-> 0,
                             failed_optimizations |-> 0, adaptive_changes |-> 0,
                             healing_actions |-> 0]
    /\ status_pc = "loop"
    /\ status_ticks = 0
    /\ status_sleep = 0
    /\ last_tick = <<"none", "none">>
    /\ health_data = NoHealthData
    /\ health_score = NoScore
    /\ emergency_log = <<>>
    /\ exit_status = NoExit
    /\ current_task = "none"

Init ==
    /\ env \in DOMAIN Families
    /\ commands = "any"
    /\ HealInit
    /\ AdaptInit
    /\ CliInit
    /\ LoopsInit

\* Scenario A: the scripted CPU readings; the compositor commands either
\* all work or all fail
InitScenarioA ==
    /\ env = "scenarioA"
    /\ commands \in {"ok", "fail"}
    /\ HealInit
    /\ AdaptInit
    /\ CliInit
    /\ LoopsInit

Next == HealTick

Spec == Init /\ [][Next]_vars

SpecScenarioA == InitScenarioA /\ [][Next]_vars

\* the adaptive loop on its own
InitAdapt ==
    /\ env = "quiet"
    /\ commands \in {"ok", "missing"}
    /\ HealInit
    /\ AdaptInit
    /\ CliInit
    /\ LoopsInit

NextAdapt == AdaptTick \/ AdaptTickRaise

SpecAdapt == InitAdapt /\ [][NextAdapt]_vars

\* the five loops under one orchestrator, with the optimizer and the adaptive
\* manager enabled or not (--no-ai-optimizer, --no-adaptive-config)
InitLoops ==
    /\ env = "loops"
    /\ commands = "ok"
    /\ HealInit
    /\ AdaptInit
    /\ CliInit
    /\ adapt_pc \in {"loop", "off"}
    /\ opt_pc \in {"loop", "off"}
    /\ onow = T0
    /\ opt_ticks = 0
    /\ opt_sleep = 0
    /\ metrics_history = <<>>
    /\ optimization_history = <<>>
    /\ last_optimization = NoneTS
    /\ ApplyInit
    /\ running = TRUE
    /\ proc = "running"
    /\ stop_task = "none"
    /\ orch_pc = "loop"
    /\ orch_ticks = 0
    /\ orch_sleep = 0
    /\ optimization_stats = [total_optimizations |-> 0, successful_optimizations |-> 0,
                             failed_optimizations |-> 0, adaptive_changes |-> 0,
                             healing_actions |-> 0]
    /\ status_pc = "loop"
    /\ status_ticks = 0
    /\ status_sleep = 0
    /\ last_tick = <<"none", "none">>
    /\ health_data = NoHealthData
    /\ health_score = NoScore
    /\ emergency_log = <<>>
    /\ exit_status = NoExit
    /\ current_task = "none"

NextLoops ==
    \/ HealTick \/ HealTickRaise \/ HealExit
    \/ AdaptTick \/ AdaptTickRaise
    \/ OptTick \/ OptTickRaise
    \/ OrchTick \/ OrchExit
    \/ StatusTick \/ StatusExit
    \/ SignalExit \/ SignalSwallowed \/ StopAllSystems \/ MainReturn

SpecLoops == InitLoops /\ [][NextLoops]_vars

\* the healing loop statement by statement, next to the two loops of the
\* orchestrator that read its state
InitSteps ==
    /\ env = "steps"
    /\ commands = "any"
    /\ HealInit
    /\ AdaptInit
    /\ CliInit
    /\ LoopsInit

NextSteps == HealStep \/ HealStepRaise \/ OrchTick \/ StatusTick

SpecSteps == InitSteps /\ [][NextSteps]_vars

\* the healing loop over readings that make the process-terminating and the
\* cache-dropping strategies and the compositor stub applicable
InitHogs ==
    /\ env = "hogs"
    /\ commands = "any"
    /\ HealInit
    /\ AdaptInit
    /\ CliInit
    /\ LoopsInit

NextHogs == HealTick

SpecHogs == InitHogs /\ [][NextHogs]_vars

(***************************************************************************)
(* Start-up of the orchestrator: main() and start_all_systems.             *)
(***************************************************************************)
\* the loops start_all_systems constructs, in the order it constructs them
Constructed == <<"ai_optimizer", "adaptive_config", "self_healing">>

PositionOf(name) == CHOOSE i \in 1..Len(Constructed) : Constructed[i] = name

\* whether the task of a loop exists when the constructor of `failing` raises
created_before(name, failing) ==
    \/ failing = "none"
    \/ PositionOf(name) < PositionOf(failing)

\* start_all_systems, up to asyncio.gather.  Constructing the loops and
\* creating their tasks never suspends, so no task runs in between.  A
\* constructor that raises leaves the try block: the handler logs the error
\* and awaits stop_all_systems, which does not suspend either.
StartAllSystems ==
    /\ proc = "starting"
    /\ \E failing \in {"none"} \cup Range(Constructed) :
         /\ opt_pc' = IF created_before("ai_optimizer", failing) THEN "loop" ELSE "off"
         /\ adapt_pc' = IF created_before("adaptive_config", failing)
                        THEN "loop" ELSE "off"
         /\ heal_pc' = IF created_before("self_healing", failing) THEN "loop" ELSE "off"
         /\ orch_pc' = IF failing = "none" THEN "loop" ELSE "off"
         /\ status_pc' = IF failing = "none" THEN "loop" ELSE "off"
         /\ running' = (failing = "none")
         /\ monitoring_active' = (failing = "none")
         /\ proc' = IF failing = "none" THEN "running" ELSE "stopping"
         /\ last_tick' = IF failing = "none" THEN last_tick
                         ELSE <<failing, "constructor raised">>
    /\ UNCHANGED <<orchObs, env, commands, now, heal_ticks, heal_sleep,
                   system_metrics_history, active_issues, resolved_issues,
                   healing_history, db_issues, db_metrics, db_actions,
                   last_detected, last_created, probe, heal_effects,
                   adaptVars, cliVars, onow,
                   opt_ticks, opt_sleep, metrics_history, optimization_history,
                   last_optimization, applyVars, stop_task, orch_ticks, orch_sleep,
                   optimization_stats, status_ticks, status_sleep>>

\* After the handler of start_all_systems: main() runs stop_all_systems in
\* its finally clause and returns, the tasks created before the failure have
\* taken their first step, asyncio.run cancels them and returns normally.
\* No exception reaches the handler that calls sys.exit(1).
StartupExit ==
    /\ proc = "stopping"
    /\ opt_pc = "loop" => opt_ticks > 0
    /\ adapt_pc = "loop" => adapt_ticks > 0
    /\ opt_pc' = cancelled(opt_pc)
    /\ adapt_pc' = cancelled(adapt_pc)
    /\ proc' = "exited"
    /\ exit_status' = 0
    /\ UNCHANGED <<current_task, health_data, health_score, emergency_log, env, commands,
                   healVars, adaptVars, cliVars, onow, opt_ticks, opt_sleep,
                   metrics_history, optimization_history, last_optimization, applyVars,
                   running, stop_task, orch_pc, orch_ticks, orch_sleep,
                   optimization_stats, status_pc, status_ticks, status_sleep,
                   last_tick>>

\* HyprlandAIOrchestrator() itself raises (its directories cannot be made):
\* the exception leaves main() and asyncio.run, and the process exits with 1.
OrchestratorInitRaises ==
    /\ proc = "starting"
    /\ proc' = "exited"
    /\ exit_status' = 1
    /\ last_tick' = <<"orchestrator", "constructor raised">>
    /\ UNCHANGED <<current_task, health_data, health_score, emergency_log, env, commands,
                   healVars, adaptVars, cliVars, adapt_pc, optVars, running,
                   stop_task, orch_pc, orch_ticks, orch_sleep,
                   optimization_stats, status_pc, status_ticks, status_sleep>>

InitStartup ==
    /\ env = "startup"
    /\ commands = "ok"
    /\ now = T0
    /\ heal_pc = "off"
    /\ heal_ticks = 0
    /\ heal_sleep = 0
    /\ monitoring_active = FALSE
    /\ system_metrics_history = <<>>
    /\ active_issues = <<>>
    /\ resolved_issues = <<>>
    /\ healing_history = <<>>
    /\ db_issues = {}
    /\ db_metrics = {}
    /\ db_actions = {}
    /\ last_detected = <<>>
    /\ last_created = <<>>
    /\ probe = NoProbe
    /\ heal_effects = <<>>
    /\ AdaptInit
    /\ CliInit
    /\ adapt_pc = "off"
    /\ opt_pc = "off"
    /\ onow = T0
    /\ opt_ticks = 0
    /\ opt_sleep = 0
    /\ metrics_history = <<>>
    /\ optimization_history = <<>>
    /\ last_optimization = NoneTS
    /\ ApplyInit
    /\ running = FALSE
    /\ proc = "starting"
    /\ stop_task = "none"
    /\ orch_pc = "off"
    /\ orch_ticks = 0
    /\ orch_sleep = 0
    /\ optimization_stats = [total_optimizations |-> 0, successful_optimizations |-> 0,
                             failed_optimizations |-> 0, adaptive_changes |-> 0,
                             healing_actions |-> 0]
    /\ status_pc = "off"
    /\ status_ticks = 0
    /\ status_sleep = 0
    /\ last_tick = <<"none", "none">>
    /\ health_data = NoHealthData
    /\ health_score = NoScore
    /\ emergency_log = <<>>
    /\ exit_status = NoExit
    /\ current_task = "none"

NextStartup ==
    \/ StartAllSystems \/ StartupExit \/ OrchestratorInitRaises
    \/ HealTick \/ AdaptTick \/ AdaptTickRaise
    \/ OptTick \/ OptTickRaise
    \/ OrchTick \/ StatusTick

SpecStartup == InitStartup /\ [][NextStartup]_vars

\* the whole life of the process: start-up, the five loops, the signal
\* handler.  With every loop enabled asyncio.gather does not return, since
\* two of the loops never end.
NextLifecycle ==
    \/ StartAllSystems \/ StartupExit \/ OrchestratorInitRaises
    \/ HealTick \/ HealExit
    \/ AdaptTick \/ AdaptTickRaise
    \/ OptTick \/ OptTickRaise
    \/ OrchTick \/ OrchExit
    \/ StatusTick \/ StatusExit
    \/ SignalExit \/ SignalSwallowed \/ StopAllSystems

SpecLifecycle == InitStartup /\ [][NextLifecycle]_vars

\* the healing loop and the monitoring loop of the orchestrator
InitOrch ==
    /\ env \in {"mem", "temp"}
    /\ commands = "any"
    /\ HealInit
    /\ AdaptInit
    /\ CliInit
    /\ LoopsInit

NextOrch == HealTick \/ OrchTick

SpecOrch == InitOrch /\ [][NextOrch]_vars

\* the reports _calculate_health_score can be handed
HealthInputs ==
    [ai_optimizer : BOOLEAN, avg_cpu : {0, 9000, 9001}, avg_memory : {9000, 9001},
     adaptive_config : BOOLEAN, config_changes : {0, 1},
     self_healing : BOOLEAN, critical_issues : 0..MaxIssues,
     high_priority_issues : 0..MaxIssues]

InitHealth ==
    /\ env = "health"
    /\ commands = "ok"
    /\ HealInit
    /\ AdaptInit
    /\ CliInit
    /\ adapt_pc = "loop"
    /\ opt_pc = "loop"
    /\ onow = T0
    /\ opt_ticks = 0
    /\ opt_sleep = 0
    /\ metrics_history = <<>>
    /\ optimization_history = <<>>
    /\ last_optimization = NoneTS
    /\ ApplyInit
    /\ running = TRUE
    /\ proc = "running"
    /\ stop_task = "none"
    /\ orch_pc = "loop"
    /\ orch_ticks = 0
    /\ orch_sleep = 0
    /\ optimization_stats = [total_optimizations |-> 0, successful_optimizations |-> 0,
                             failed_optimizations |-> 0, adaptive_changes |-> 0,
                             healing_actions |-> 0]
    /\ status_pc = "loop"
    /\ status_ticks = 0
    /\ status_sleep = 0
    /\ last_tick = <<"none", "none">>
    /\ health_data \in HealthInputs
    /\ health_score = NoScore
    /\ emergency_log = <<>>
    /\ exit_status = NoExit
    /\ current_task = "none"

NextHealth == HealthEval

SpecHealth == InitHealth /\ [][NextHealth]_vars

\* _apply_adaptive_optimizations on the context and the profiles at hand
ApplyOptimizations ==
    /\ env = "match"
    /\ last_tick = <<"none", "none">>
    /\ \E A \in {astep_apply(AdaptState, anow)} :
           /\ config_history' = A.hist
           /\ active_profile' = A.active
    /\ last_tick' = <<"adaptive_config", "applied">>
    /\ UNCHANGED <<env, commands, healVars, cliVars, adapt_pc, optVars, orchVars,
                   anow, adapt_ticks, adapt_sleep, current_context,
                   has_last_known_config, last_known_config, usage_patterns,
                   preference_profiles, db_contexts, db_changes, last_pass,
                   read_config>>

\* a profile as _update_preference_profiles leaves it: created from n
\* changes of the bucket, then merged into by m later passes
LearnedProfile(pattern_key, n, m, value) ==
    [profile_id |-> profile_id_of(pattern_key),
     pattern_key |-> pattern_key,
     preferred_configs |-> <<[k |-> "general:gaps_in", v |-> value]>>,
     usage_frequency |-> n + m,
     last_used |-> T0,
     confidence_score |-> confidence_of(n)]

MatchContexts ==
    {capture_user_context(app, 0, hour, T0) : app \in {"kitty", "steam"},
                                              hour \in {9, 13}}

MatchKeys == {pattern_key_of(c) : c \in MatchContexts}

\* two profiles of different buckets, in the order of the dictionary
MatchProfiles ==
    {<<[k |-> P.profile_id, v |-> P], [k |-> Q.profile_id, v |-> Q]>> :
        P \in {LearnedProfile(key, n, m, "A") :
                  key \in MatchKeys, n \in MIN_PROFILE_CHANGES..MaxProfileChanges,
                  m \in 0..MaxMerges},
        Q \in {LearnedProfile(key, n, m, "B") :
                  key \in MatchKeys, n \in MIN_PROFILE_CHANGES..MaxProfileChanges,
                  m \in 0..MaxMerges}}

\* profile matching on its own: a context and two learned profiles
InitMatch ==
    /\ env = "match"
    /\ commands = "ok"
    /\ HealInit
    /\ CliInit
    /\ LoopsInit
    /\ anow = T0
    /\ adapt_ticks = 0
    /\ adapt_sleep = 0
    /\ current_context \in MatchContexts
    /\ has_last_known_config = FALSE
    /\ last_known_config = <<>>
    /\ config_history = <<>>
    /\ usage_patterns = <<>>
    /\ preference_profiles \in {ps \in MatchProfiles : ps[1].k # ps[2].k}
    /\ active_profile = NoProfile
    /\ db_contexts = <<>>
    /\ db_changes = <<>>
    /\ last_pass = FALSE
    /\ read_config = <<>>

NextMatch == ApplyOptimizations

SpecMatch == InitMatch /\ [][NextMatch]_vars

\* the healing loop when single metric sources fail
InitCollect ==
    /\ env = "collect"
    /\ commands = "ok"
    /\ HealInit
    /\ AdaptInit
    /\ CliInit
    /\ LoopsInit

NextCollect == HealTick

SpecCollect == InitCollect /\ [][NextCollect]_vars

\* the healing and the adaptive loop over a database whose writes can fail
InitStore ==
    /\ env = "store"
    /\ commands = "ok"
    /\ HealInit
    /\ AdaptInit
    /\ CliInit
    /\ LoopsInit

NextStore == HealTick \/ AdaptTick \/ AdaptTickRaise

SpecStore == InitStore /\ [][NextStore]_vars

\* change detection: configuration lines that come and go, database writes
\* that fail
InitDetect ==
    /\ env \in {"keys", "store"}
    /\ commands = "ok"
    /\ HealInit
    /\ AdaptInit
    /\ CliInit
    /\ LoopsInit

NextDetect == AdaptTick \/ AdaptTickRaise

SpecDetect == InitDetect /\ [][NextDetect]_vars

\* the command line tool on its own
InitCli ==
    /\ env = "quiet"
    /\ commands = "ok"
    /\ HealInit
    /\ AdaptInit
    /\ LoopsInit
    /\ cli_pc = "start"
    /\ config \in InitialStores
    /\ cli_key = <<>>
    /\ cli_value = <<>>
    /\ cli_result = FALSE

NextCli == ConfigSet

SpecCli == InitCli /\ [][NextCli]_vars

\* both loops over stores that hold entries as old as the retention windows:
\* the timestamps next to the first cutoff of each loop
AgedStamps(retention) == {T0 - retention - 1, T0 - retention, T0 - retention + 1}

\* the entries of a set of timestamps in time order
RECURSIVE InTimeOrder(_)
InTimeOrder(stamps) ==
    IF stamps = {} THEN <<>>
    ELSE LET t == CHOOSE x \in stamps : \A y \in stamps : x <= y
         IN  <<t>> \o InTimeOrder(stamps \ {t})

AgedContext(t) == capture_user_context("kitty", 0, 9, t)

AgedChange(t) ==
    config_change("general:gaps_in", "A", "B", AgedContext(t), "user", t)

InitPrune ==
    /\ env = "prune"
    /\ commands = "ok"
    /\ \E hs \in SUBSET AgedStamps(HEAL_RETENTION) :
         /\ now = T0
         /\ heal_pc = "loop"
         /\ heal_ticks = 0
         /\ heal_sleep = 0
         /\ monitoring_active = TRUE
         /\ system_metrics_history = <<>>
         /\ active_issues = <<>>
         /\ resolved_issues = <<>>
         /\ healing_history = <<>>
         /\ db_issues = {}
         /\ db_metrics = UNION {store_metrics({}, Quiet, t) : t \in hs}
         /\ db_actions = {}
         /\ last_detected = <<>>
         /\ last_created = <<>>
         /\ probe = NoProbe
         /\ heal_effects = <<>>
    /\ \E as \in SUBSET AgedStamps(ADAPT_RETENTION) :
         LET stamps == InTimeOrder(as)
         IN  /\ anow = T0
             /\ adapt_ticks = 0
             /\ adapt_sleep = 0
             /\ current_context = NoContext
             /\ has_last_known_config = FALSE
             /\ last_known_config = <<>>
             /\ config_history = [i \in 1..Len(stamps) |-> AgedChange(stamps[i])]
             /\ usage_patterns = <<>>
             /\ preference_profiles = <<>>
             /\ active_profile = NoProfile
             /\ db_contexts = [i \in 1..Len(stamps) |-> [timestamp |-> stamps[i]]]
             /\ db_changes = [i \in 1..Len(stamps) |->
                                [timestamp |-> stamps[i],
                                 config_key |-> "general:gaps_in",
                                 new_value |-> "B", change_source |-> "user"]]
             /\ last_pass = FALSE
             /\ read_config = <<>>
    /\ CliInit
    /\ LoopsInit

NextPrune == HealTick \/ AdaptTick \/ AdaptTickRaise

SpecPrune == InitPrune /\ [][NextPrune]_vars

\* an issue an earlier run resolved at time t
AgedResolvedIssue(t) ==
    mark_resolved(create_memory_issue([Quiet EXCEPT !.memory_usage = 9600], t - 30), t)

\* an issue an earlier run left unresolved
AgedOpenIssue ==
    create_cpu_issue([Quiet EXCEPT !.cpu_usage = 9200], T0 - HEAL_RETENTION - 1)

\* _load_system_state: SELECT * FROM system_issues WHERE resolved = 0
load_system_state(dbi) ==
    LET open == {r \in dbi : ~r.resolved}
        stamps == InTimeOrder({r.timestamp : r \in open})
    IN  [i \in 1..Len(stamps) |-> CHOOSE r \in open : r.timestamp = stamps[i]]

\* the healing loop over a store that holds the issues of earlier runs
InitIssues ==
    /\ env \in {"cpu", "mem"}
    /\ commands = "ok"
    /\ now = T0
    /\ heal_pc = "loop"
    /\ heal_ticks = 0
    /\ heal_sleep = 0
    /\ monitoring_active = TRUE
    /\ system_metrics_history = <<>>
    /\ db_issues \in {{AgedResolvedIssue(t) : t \in rs} \cup open :
                         rs \in {{}, AgedStamps(HEAL_RETENTION)},
                         open \in {{}, {AgedOpenIssue}}}
    /\ active_issues = load_system_state(db_issues)
    /\ resolved_issues = <<>>
    /\ healing_history = <<>>
    /\ db_metrics = {}
    /\ db_actions = {}
    /\ last_detected = <<>>
    /\ last_created = <<>>
    /\ probe = NoProbe
    /\ heal_effects = <<>>
    /\ AdaptInit
    /\ CliInit
    /\ LoopsInit

NextIssues == HealTick

SpecIssues == InitIssues /\ [][NextIssues]_vars

\* the state of the healing loop after n ticks that read Quiet, the first
\* of them at time t: n samples in the history and in system_metrics
RECURSIVE quiet_ticks(_, _, _)
quiet_ticks(S, n, t) ==
    IF n = 0 THEN S
    ELSE quiet_ticks(step_cleanup(step_collect(S, Quiet, t), t), n - 1,
                     t + monitoring_interval)

\* the samples a pattern detection needs, less one
QuietTicksBefore == 9

\* the healing loop from the state nine quiet ticks leave
InitTrend ==
    /\ env = "trend"
    /\ commands = "ok"
    /\ now = T0
    /\ heal_pc = "loop"
    /\ heal_ticks = 0
    /\ heal_sleep = monitoring_interval
    /\ monitoring_active = TRUE
    /\ \E S \in {quiet_ticks([hist |-> <<>>, active |-> <<>>, resolved |-> <<>>,
                               hh |-> <<>>, dbi |-> {}, dbm |-> {}, dba |-> {},
                               created |-> <<>>],
                              QuietTicksBefore,
                              T0 - QuietTicksBefore * monitoring_interval)} :
           /\ system_metrics_history = S.hist
           /\ db_metrics = S.dbm
    /\ active_issues = <<>>
    /\ resolved_issues = <<>>
    /\ healing_history = <<>>
    /\ db_issues = {}
    /\ db_actions = {}
    /\ last_detected = <<>>
    /\ last_created = <<>>
    /\ probe = NoProbe
    /\ heal_effects = <<>>
    /\ AdaptInit
    /\ CliInit
    /\ LoopsInit

NextTrend == HealTick

SpecTrend == InitTrend /\ [][NextTrend]_vars

\* The process is stopped and started again: SelfHealingSystem.__init__
\* makes the in-memory state anew, start_monitoring loads the unresolved
\* rows of system_issues into active_issues; the tables are kept.
Restart ==
    /\ proc = "running"
    /\ heal_pc = "loop"
    /\ system_metrics_history # <<>>
    /\ system_metrics_history' = <<>>
    /\ active_issues' = load_system_state(db_issues)
    /\ resolved_issues' = <<>>
    /\ healing_history' = <<>>
    /\ last_detected' = <<>>
    /\ last_created' = <<>>
    /\ probe' = NoProbe
    /\ heal_effects' = <<>>
    /\ heal_sleep' = 0
    /\ last_tick' = <<"self_healing", "restarted">>
    /\ UNCHANGED <<env, commands, now, heal_pc, heal_ticks, monitoring_active,
                   db_issues, db_metrics, db_actions, adaptVars, cliVars,
                   adapt_pc, optVars, orchVars>>

InitRestart ==
    /\ env = "cpu"
    /\ commands = "ok"
    /\ HealInit
    /\ AdaptInit
    /\ CliInit
    /\ LoopsInit

NextRestart == HealTick \/ Restart

SpecRestart == InitRestart /\ [][NextRestart]_vars

(***************************************************************************)
(* Observations used by the properties.                                    *)
(***************************************************************************)
\* every issue the run has created so far
AllIssues == Range(active_issues) \cup Range(resolved_issues)

\* healing actions attempted so far for the issue
ActionsFor(id) ==
    Cardinality({k \in 1..Len(healing_history) : healing_history[k].issue_id = id})

LastMetrics == system_metrics_history[Len(system_metrics_history)]

\* the time at which the last completed tick ran
LastTickTime == now - heal_sleep

IsHealStep == heal_ticks' = heal_ticks + 1

\* the metric and threshold a threshold issue was created from
TriggerKinds == {"cpu_high", "memory_high", "temp_high"}

TriggerThreshold(kind) ==
    CASE kind = "cpu_high" -> CPU_THRESHOLD
      [] kind = "memory_high" -> MEMORY_THRESHOLD
      [] kind = "temp_high" -> TEMPERATURE_THRESHOLD

TriggerMetric(kind, m) ==
    CASE kind = "cpu_high" -> m.cpu_usage
      [] kind = "memory_high" -> m.memory_usage
      [] kind = "temp_high" -> Max(m.cpu_temperature, m.gpu_temperature)

(***************************************************************************)
(* C1: resolution-attempt ceiling.  No issue ever has more than 3 healing  *)
(* actions attempted for it and its resolution_attempts never exceeds 3;   *)
(* the counter equals the number of actions attempted, so an issue that    *)
(* has reached 3 gets no further action on any later tick, whatever its    *)
(* trigger metric reads.                                                   *)
(***************************************************************************)
C1_AttemptCeiling ==
    \A issue \in AllIssues :
        /\ issue.resolution_attempts <= 3
        /\ ActionsFor(issue.issue_id) <= 3
        /\ ActionsFor(issue.issue_id) = issue.resolution_attempts

\* an issue at the ceiling is still active after a tick whose reading is
\* above the threshold, and that tick attempted nothing for it
C1_Witness ==
    \E i \in 1..Len(active_issues) :
        /\ active_issues[i].issue_id[1] \in TriggerKinds
        /\ active_issues[i].resolution_attempts = 3
        /\ ~LastMetrics.err
        /\ TriggerMetric(active_issues[i].issue_id[1], LastMetrics)
               > TriggerThreshold(active_issues[i].issue_id[1])
        /\ \A k \in 1..Len(healing_history) :
               healing_history[k].issue_id = active_issues[i].issue_id
                   => healing_history[k].timestamp < LastTickTime

(***************************************************************************)
(* C2: issue deduplication.  No two active issues ever share               *)
(* (category, title); in every tick a detection whose (category, title) is *)
(* that of an issue active when the tick starts creates nothing, and every *)
(* other detection, also one that repeats a resolved issue, creates a new  *)
(* issue.                                                                  *)
(***************************************************************************)
NoDuplicateActive ==
    \A i, j \in 1..Len(active_issues) :
        (active_issues[i].category = active_issues[j].category
            /\ active_issues[i].title = active_issues[j].title) => i = j

DedupStep ==
    IsHealStep =>
        \A k \in 1..Len(last_detected') :
            LET d == last_detected'[k]
            IN  IF \E i \in 1..Len(active_issues) :
                       /\ active_issues[i].category = d.category
                       /\ active_issues[i].title = d.title
                THEN d \notin Range(last_created')
                     /\ d \notin Range(active_issues')
                ELSE d \in Range(last_created')
                     /\ \E i \in 1..Len(active_issues') :
                            active_issues'[i].issue_id = d.issue_id

C2_Deduplication == []NoDuplicateActive /\ [][DedupStep]_vars

\* an issue was resolved, a later detection with its (category, title)
\* created a new issue, and the last tick dropped a detection as a duplicate
C2_Witness ==
    /\ \E r \in Range(resolved_issues) : \E a \in Range(active_issues) :
          /\ a.category = r.category
          /\ a.title = r.title
          /\ a.timestamp > r.resolution_timestamp
    /\ \E k \in 1..Len(last_detected) :
          last_detected[k] \notin Range(last_created)

(***************************************************************************)
(* C3: hysteresis.  In every tick that collects a reading M, a threshold   *)
(* issue (CPU, memory, temperature; threshold T) that is active stays      *)
(* active when 0.8*T <= M, and it is moved to resolved only when           *)
(* M < 0.8*T.                                                              *)
(***************************************************************************)
HysteresisStep ==
    IsHealStep =>
        LET m == system_metrics_history'[Len(system_metrics_history')]
            before == Range(active_issues) \cup Range(last_created')
            activeIds == {active_issues'[i].issue_id : i \in 1..Len(active_issues')}
            newlyResolved == {r.issue_id : r \in Range(resolved_issues')}
                                \ {r.issue_id : r \in Range(resolved_issues)}
        IN  \A issue \in before :
                issue.issue_id[1] \in TriggerKinds =>
                    LET T == TriggerThreshold(issue.issue_id[1])
                    IN  /\ (~m.err /\ 10 * TriggerMetric(issue.issue_id[1], m) >= 8 * T)
                              => issue.issue_id \in activeIds
                        /\ issue.issue_id \in newlyResolved
                              => (~m.err /\ 10 * TriggerMetric(issue.issue_id[1], m) < 8 * T)
                        /\ issue.issue_id \in activeIds \cup newlyResolved

C3_Hysteresis == [][HysteresisStep]_vars

\* the last tick read exactly 0.8*T and an issue of that metric is still
\* active, while an earlier issue was resolved by a reading below 0.8*T
C3_Witness ==
    /\ \E i \in 1..Len(active_issues) :
          /\ active_issues[i].issue_id[1] \in TriggerKinds
          /\ ~LastMetrics.err
          /\ 10 * TriggerMetric(active_issues[i].issue_id[1], LastMetrics)
                 = 8 * TriggerThreshold(active_issues[i].issue_id[1])
          /\ active_issues[i].timestamp < LastTickTime
    /\ \E r \in Range(resolved_issues) : r.issue_id[1] \in TriggerKinds

(***************************************************************************)
(* C4: scenario A.  After the ten CPU readings 50, 55, 60, 92, ..., 98     *)
(* have been fed to the detector, exactly one "High CPU Usage" issue has   *)
(* been created and its severity is HIGH.                                  *)
(***************************************************************************)
CpuIssues == {i \in AllIssues : i.title[1] = "High CPU Usage"}

C4_ScenarioA ==
    (env = "scenarioA" /\ heal_ticks = Len(ScenarioACpu)) =>
        /\ Cardinality(CpuIssues) = 1
        /\ \A i \in CpuIssues : i.severity = HIGH

(***************************************************************************)
(* Observations of the adaptive loop.                                      *)
(***************************************************************************)
IsAdaptStep == adapt_ticks' = adapt_ticks + 1

\* the tick captured a context, so it ran to its end
IsAdaptCompleted == IsAdaptStep /\ current_context'.timestamp = anow

IsLearningPass == IsAdaptCompleted /\ last_pass'

Profiles == {preference_profiles[i].v : i \in 1..Len(preference_profiles)}

BucketOf(patterns, pattern_key) == od_get_default(patterns, pattern_key, <<>>)

\* the values recorded in a bucket for one key, in order
ValuesFor(changes, key) ==
    LET sel == SelectSeq(changes, LAMBDA c : c.config_key = key)
    IN  [i \in 1..Len(sel) |-> sel[i].value]

(***************************************************************************)
(* C5: a cleanup with cutoff c leaves no entry with timestamp < c and      *)
(* keeps every entry with timestamp >= c, the one stamped exactly c        *)
(* included, in the tables system_metrics, user_contexts, config_changes   *)
(* and in the in-memory config_history alike; what a tick appends is       *)
(* stamped >= c, so the tick leaves the kept entries followed by the       *)
(* appended ones.                                                          *)
(***************************************************************************)
KeptSeq(before, after, cutoff) ==
    /\ \A i \in 1..Len(after) : after[i].timestamp >= cutoff
    /\ \E k \in 0..Len(after) :
         /\ SubSeq(after, 1, k) = SelectSeq(before, LAMBDA e : e.timestamp >= cutoff)
         /\ \A i \in (k + 1)..Len(after) : after[i].timestamp >= anow

KeptSet(before, after, cutoff) ==
    /\ \A r \in after : r.timestamp >= cutoff
    /\ \A r \in before : r.timestamp >= cutoff => r \in after

PruneStep ==
    /\ IsAdaptCompleted =>
         /\ KeptSeq(db_contexts, db_contexts', anow - ADAPT_RETENTION)
         /\ KeptSeq(db_changes, db_changes', anow - ADAPT_RETENTION)
         /\ KeptSeq(config_history, config_history', anow - ADAPT_RETENTION)
    /\ (heal_ticks' = heal_ticks + 1 /\ heal_sleep' = monitoring_interval) =>
         KeptSet(db_metrics, db_metrics', now - HEAL_RETENTION)

C5_Pruning == [][PruneStep]_vars

(***************************************************************************)
(* C6: the confidence score of a profile is never greater than 1.0 and     *)
(* never decreases from one learning pass to the next, however many more   *)
(* observations of its bucket arrive; the confidence computed from n       *)
(* observations is itself non-decreasing in n.                             *)
(***************************************************************************)
MaxObservations == MaxAdaptTicks * Len(ConfigKeys)

ConfidenceBounded ==
    /\ \A p \in Profiles : p.confidence_score <= 10
    /\ \A n \in 0..MaxObservations :
         confidence_of(n) <= confidence_of(n + 1) /\ confidence_of(n) <= 10

ConfidenceStep ==
    \A p \in Profiles :
        /\ od_has(preference_profiles', p.profile_id)
        /\ od_get(preference_profiles', p.profile_id).confidence_score
              >= p.confidence_score

C6_ConfidenceMonotone == []ConfidenceBounded /\ [][ConfidenceStep]_vars

\* a profile created from fewer than ten observations whose bucket a later
\* pass has found larger
C6_Witness ==
    /\ last_pass
    /\ \E p \in Profiles :
         /\ p.confidence_score < 10
         /\ Len(BucketOf(usage_patterns, p.pattern_key)) > p.confidence_score

(***************************************************************************)
(* C7: in a learning pass, a bucket whose changes for a key carry the      *)
(* values A, A, B gives the profile of the bucket the preferred value A    *)
(* for that key, and a pass that merges a bucket into an existing profile  *)
(* adds the number of changes of the bucket to usage_frequency.            *)
(***************************************************************************)
MajorityStep ==
    \A i \in 1..Len(usage_patterns') :
        LET bucket == usage_patterns'[i]
            id == profile_id_of(bucket.k)
        IN  \A key \in Range(ConfigKeys) :
                LET values == ValuesFor(bucket.v, key)
                IN  (/\ Len(values) = 3
                     /\ values[1] = values[2]
                     /\ values[3] # values[1]) =>
                        /\ od_has(preference_profiles', id)
                        /\ od_get(od_get(preference_profiles', id).preferred_configs,
                                  key) = values[1]

FrequencyStep ==
    \A p \in Profiles :
        LET batch == BucketOf(usage_patterns', p.pattern_key)
        IN  Len(batch) >= MIN_PROFILE_CHANGES =>
                od_get(preference_profiles', p.profile_id).usage_frequency
                    = p.usage_frequency + Len(batch)

C7_ScenarioD == [][IsLearningPass => (MajorityStep /\ FrequencyStep)]_vars

(***************************************************************************)
(* C8: a set on an empty store leaves exactly the nested maps along the    *)
(* key path and the leaf, the leaf typed from its text: true/false (any    *)
(* case) a boolean, text with a '.' that reads as a number a float of that *)
(* value, text with a '.' that does not read as a number a string, digits  *)
(* an integer, anything else a string.                                     *)
(***************************************************************************)
\* the segments of a key, from the positions of its dots
KeyPathOf(key) ==
    LET dots == {i \in 1..Len(key) : key[i] = "."}
        bounds == dots \cup {0, Len(key) + 1}
        start(j) == CHOOSE b \in bounds : Cardinality({c \in bounds : c < b}) = j - 1
        stop(j) == CHOOSE b \in bounds : Cardinality({c \in bounds : c < b}) = j
    IN  [j \in 1..(Cardinality(dots) + 1) |-> SubSeq(key, start(j) + 1, stop(j) - 1)]

IsSetOnEmpty == cli_pc = "start" /\ cli_pc' = "done" /\ config = EmptyStore

NestedAlongPath(store, path) ==
    /\ DOMAIN store = {SubSeq(path, 1, i) : i \in 1..Len(path)}
    /\ \A i \in 1..(Len(path) - 1) : store[SubSeq(path, 1, i)].type = "dict"

\* sign? digit* '.' digit* with a digit somewhere
ReadsAsNumber(value) ==
    \E first \in 1..2, dot \in 1..Len(value) :
        /\ first = 2 => value[1] \in {"-", "+"}
        /\ dot >= first
        /\ value[dot] = "."
        /\ Len(value) > first
        /\ \A i \in first..Len(value) : i # dot => value[i] \in Digits

LeafTyped(leaf, value, dotted_is_float) ==
    IF lower(value) \in {<<"t", "r", "u", "e">>, <<"f", "a", "l", "s", "e">>}
    THEN leaf.type = "bool" /\ leaf.val = (lower(value)[1] = "t")
    ELSE IF "." \in Range(value) /\ dotted_is_float
    THEN leaf.type = "float" /\ leaf.val = float_of(value)
    ELSE IF "." \in Range(value)
    THEN leaf.type = "str" /\ leaf.val = value
    ELSE IF \A i \in 1..Len(value) : value[i] \in Digits
    THEN leaf.type = "int" /\ leaf.val = int_of(value)
    ELSE leaf.type = "str" /\ leaf.val = value

SetStep ==
    IsSetOnEmpty =>
        /\ cli_result'
        /\ NestedAlongPath(config', KeyPathOf(cli_key'))
        /\ LeafTyped(config'[KeyPathOf(cli_key')], cli_value',
                     ReadsAsNumber(cli_value'))

C8_DottedSet == [][SetStep]_vars

\* ai_optimizer.learning_rate = 0.01 on an empty store
C8_Witness ==
    /\ cli_pc = "done"
    /\ cli_result
    /\ cli_key = ScenarioKey
    /\ cli_value = <<"0", ".", "0", "1">>
    /\ DOMAIN config = {<<SubSeq(ScenarioKey, 1, 12)>>,
                        <<SubSeq(ScenarioKey, 1, 12), SubSeq(ScenarioKey, 14, 26)>>}
    /\ config[<<SubSeq(ScenarioKey, 1, 12)>>].type = "dict"
    /\ config[<<SubSeq(ScenarioKey, 1, 12), SubSeq(ScenarioKey, 14, 26)>>]
           = Node("float", <<1, 1, 2>>)

\* C8 as stated: every text containing a '.' is stored as a float
SetStepAsStated ==
    IsSetOnEmpty =>
        /\ cli_result'
        /\ NestedAlongPath(config', KeyPathOf(cli_key'))
        /\ LeafTyped(config'[KeyPathOf(cli_key')], cli_value', TRUE)

C8_DottedSetAsStated == [][SetStepAsStated]_vars

(***************************************************************************)
(* Observations of the five loops.                                         *)
(***************************************************************************)
TickCounts == <<opt_ticks, adapt_ticks, heal_ticks, orch_ticks, status_ticks>>

LoopPcs == <<opt_pc, adapt_pc, heal_pc, orch_pc, status_pc>>

\* the normal interval of a loop and the sleep of its last tick
NormalInterval(loop) ==
    CASE loop = "ai_optimizer" -> OPT_INTERVAL
      [] loop = "adaptive_config" -> ADAPT_INTERVAL
      [] loop = "self_healing" -> monitoring_interval

(***************************************************************************)
(* C9: once a signal has been delivered and stop_all_systems has run, no   *)
(* loop (optimizer, adaptive, healing, monitoring, reporting) starts       *)
(* another tick.                                                           *)
(***************************************************************************)
StopRequested == stop_task # "none" /\ ~running

C9_Cancellation == [][StopRequested => TickCounts' = TickCounts]_vars

(***************************************************************************)
(* C10: in the optimizer, adaptive and healing loops, a tick that raises   *)
(* leaves the loop running and is followed by a sleep of twice the normal  *)
(* interval of the loop.                                                   *)
(***************************************************************************)
BackoffStep ==
    \A loop \in {"ai_optimizer", "adaptive_config", "self_healing"} :
        (TickCounts' # TickCounts /\ last_tick' = <<loop, "error">>) =>
            LET pc == CASE loop = "ai_optimizer" -> opt_pc'
                        [] loop = "adaptive_config" -> adapt_pc'
                        [] loop = "self_healing" -> heal_pc'
                sleep == CASE loop = "ai_optimizer" -> opt_sleep'
                           [] loop = "adaptive_config" -> adapt_sleep'
                           [] loop = "self_healing" -> heal_sleep'
            IN  pc = "loop" /\ sleep = 2 * NormalInterval(loop)

C10_Backoff == [][BackoffStep]_vars

IsOrchStep == orch_ticks' = orch_ticks + 1

CriticalActive == {i \in 1..Len(active_issues) : active_issues[i].severity = CRITICAL}

\* the commands the monitoring tick ran for the issue
ResponsesTo(id) ==
    {emergency_log'[k].commands :
        k \in {j \in 1..Len(emergency_log') : emergency_log'[j].issue_id = id}}

(***************************************************************************)
(* C11: on every monitoring tick of the orchestrator, each active issue of *)
(* CRITICAL severity gets the response its title selects: a title with     *)
(* "temperature" gets the command sequence that disables animations, blur  *)
(* and shadow (and enables vfr), a title with "memory" gets sync and the   *)
(* dropping of the page cache instead, any other title gets no command;    *)
(* issues below CRITICAL get no response.                                  *)
(***************************************************************************)
EscalationStep ==
    IsOrchStep =>
        /\ \A i \in CriticalActive :
               ResponsesTo(active_issues[i].issue_id) =
                   {CASE active_issues[i].title[1] = "High Temperature" ->
                             PerformanceReduction
                      [] active_issues[i].title[1] = "High Memory Usage" ->
                             MemoryCleanup
                      [] OTHER -> <<>>}
        /\ Len(emergency_log') = Cardinality(CriticalActive)

EscalationStepAsStated ==
    (IsOrchStep /\ CriticalActive # {}) =>
        \E k \in 1..Len(emergency_log') :
            emergency_log'[k].commands = PerformanceReduction

Floored(x) == IF x < 0 THEN 0 ELSE x

\* the sum and the number of the sub-scores of the loops that reported
SubScores(hd, adaptive_bonus) ==
    LET ai == IF hd.ai_optimizer
              THEN <<80 - (IF hd.avg_cpu > 9000 THEN 20 ELSE 0)
                        - (IF hd.avg_memory > 9000 THEN 20 ELSE 0), 1>>
              ELSE <<0, 0>>
        adaptive == IF hd.adaptive_config
                    THEN <<80 + (IF hd.config_changes > 0 THEN adaptive_bonus ELSE 0), 1>>
                    ELSE <<0, 0>>
        healing == IF hd.self_healing
                   THEN <<Floored(90 - 15 * hd.critical_issues
                                     - 10 * hd.high_priority_issues), 1>>
                   ELSE <<0, 0>>
    IN  <<ai[1] + adaptive[1] + healing[1], ai[2] + adaptive[2] + healing[2]>>

MeanOf(sub) == IF sub[2] = 0 THEN <<75, 1>> ELSE sub

(***************************************************************************)
(* C12: for all loop reports, the health score is the arithmetic mean of   *)
(* the sub-scores of the loops that reported (75 when none did): the       *)
(* optimizer's is 80 minus 20 when average CPU > 90 and minus 20 when      *)
(* average memory > 90, the adaptive one is 80 plus 10 when a              *)
(* configuration change has been recorded, the healing one is 90 minus 15  *)
(* per critical and 10 per high-priority issue, floored at 0; the score is *)
(* never negative.                                                         *)
(***************************************************************************)
C12_HealthScore ==
    health_score # NoScore =>
        /\ health_score = MeanOf(SubScores(health_data, 10))
        /\ health_score[1] >= 0
        /\ health_score[2] > 0

C12_Witness ==
    /\ health_score # NoScore
    /\ health_data.ai_optimizer /\ health_data.adaptive_config
    /\ health_data.self_healing
    /\ health_data.avg_cpu > 9000
    /\ 15 * health_data.critical_issues + 10 * health_data.high_priority_issues > 90
    /\ health_score[2] = 3

(***************************************************************************)
(* C12 as stated: every sub-score is a fixed baseline minus fixed          *)
(* deductions, so none exceeds its baseline, and the score is their mean.  *)
(***************************************************************************)
C12_HealthScoreAsStated ==
    health_score # NoScore =>
        health_score = MeanOf(SubScores(health_data, 0))

\* the tick ran all its steps
IsHealCompleted == IsHealStep /\ last_tick' = <<"self_healing", "ok">>

\* resolution_attempts of the issue before the tick, 0 for an issue the
\* tick created
AttemptsBefore(id) ==
    IF \E j \in 1..Len(active_issues) : active_issues[j].issue_id = id
    THEN active_issues[CHOOSE j \in 1..Len(active_issues) :
                           active_issues[j].issue_id = id].resolution_attempts
    ELSE 0

\* positions of the healing actions the tick added for the issue
NewActionsFor(id) ==
    {k \in (Len(healing_history) + 1)..Len(healing_history') :
        healing_history'[k].issue_id = id}

\* positions, in the list of the category, of the strategies whose
\* preconditions all evaluate true on the metrics
Applicable(issue, metrics) ==
    {k \in 1..Len(healing_strategies(issue.category)) :
        \A c \in 1..Len(healing_strategies(issue.category)[k].conditions) :
            evaluate_condition(healing_strategies(issue.category)[k].conditions[c],
                               metrics, issue)}

(***************************************************************************)
(* C13: in one healing tick, each active issue gets at most one strategy   *)
(* applied; an issue that is auto-fixable and has at most 2 attempts gets  *)
(* the first strategy of its category whose preconditions all evaluate     *)
(* true on the latest metrics, any other issue gets none; its              *)
(* resolution_attempts grows by one when a strategy was applied, whatever  *)
(* the outcome, and is unchanged otherwise.                                *)
(***************************************************************************)
StrategyStep ==
    IsHealCompleted =>
        \A i \in 1..Len(active_issues') :
            LET issue == active_issues'[i]
                before == AttemptsBefore(issue.issue_id)
                new == NewActionsFor(issue.issue_id)
                metrics == system_metrics_history'[Len(system_metrics_history')]
                applicable == Applicable(issue, metrics)
            IN  /\ Cardinality(new) <= 1
                /\ issue.resolution_attempts = before + Cardinality(new)
                /\ IF issue.auto_fixable /\ before <= 2 /\ applicable # {}
                   THEN \E k \in new :
                            healing_history'[k].action_type =
                                healing_strategies(issue.category)
                                    [CHOOSE a \in applicable :
                                         \A b \in applicable : a <= b].name
                   ELSE new = {}

C13_OneStrategy == [][StrategyStep]_vars

\* the second strategy of a list has been applied, and an issue has two
\* attempts counted, one of them a failed action
C13_Witness ==
    /\ \E k \in 1..Len(healing_history) :
           /\ healing_history[k].action_type = "reset_to_defaults"
    /\ \E k \in 1..Len(healing_history) :
           /\ ~healing_history[k].success
           /\ \E i \in 1..Len(active_issues) :
                  /\ active_issues[i].issue_id = healing_history[k].issue_id
                  /\ active_issues[i].resolution_attempts = 2
                  /\ ActionsFor(active_issues[i].issue_id) = 2

\* positions of the adaptive changes recorded at time t
AdaptiveChangesAt(hist, t) ==
    {k \in 1..Len(hist) : hist[k].change_source = "adaptive" /\ hist[k].timestamp = t}

\* the profile is a best-scoring match of the context among the profiles
IsBestMatch(p, context, profiles) ==
    /\ calculate_context_similarity(context, p) > 0
    /\ \A q \in profiles :
           calculate_context_similarity(context, q)
               <= calculate_context_similarity(context, p)

(***************************************************************************)
(* C14: a tick applies preferred values (records adaptive changes, sets    *)
(* the active profile) only from a profile whose confidence score is       *)
(* strictly greater than 0.7 and that is a best-scoring match of the       *)
(* current context; a profile with confidence <= 0.7 is never applied.     *)
(***************************************************************************)
ApplyStep ==
    (IsAdaptCompleted /\ (AdaptiveChangesAt(config_history', anow) # {}
                            \/ active_profile' # active_profile)) =>
        \E p \in Profiles' :
            /\ p.profile_id = active_profile'
            /\ p.confidence_score > 7
            /\ IsBestMatch(p, current_context', Profiles')
            /\ \A k \in AdaptiveChangesAt(config_history', anow) :
                   /\ od_has(p.preferred_configs, config_history'[k].config_key)
                   /\ od_get(p.preferred_configs, config_history'[k].config_key)
                          = config_history'[k].new_value

C14_ConfidenceGate == [][ApplyStep]_vars

\* the last tick applied a profile while a profile of confidence <= 0.7
\* was among the profiles
C14_Witness ==
    /\ current_context # NoContext
    /\ AdaptiveChangesAt(config_history, current_context.timestamp) # {}
    /\ \E p \in Profiles : p.profile_id = active_profile /\ p.confidence_score > 7
    /\ \E q \in Profiles : q.confidence_score <= 7

\* the profile's bucket is the bucket of the context
IsExactMatch(p, context) == p.pattern_key = pattern_key_of(context)

\* the profile shares the activity label of the context, not its bucket
IsPartialMatch(p, context) ==
    /\ p.pattern_key # pattern_key_of(context)
    /\ p.pattern_key[1] = context.user_activity_pattern

(***************************************************************************)
(* C15: for every current context and every pair of profiles, a profile    *)
(* whose bucket key equals the (activity label, hour/4) bucket of the      *)
(* context is ranked above a profile that matches the context only by its  *)
(* activity label: the partial match is never the profile selected.        *)
(***************************************************************************)
C15_ExactAbovePartial ==
    last_tick = <<"adaptive_config", "applied">> =>
        \A p, q \in Profiles :
            (IsExactMatch(p, current_context) /\ IsPartialMatch(q, current_context))
                => active_profile # q.profile_id

\* positions of the changes with source 'user' the tick recorded for the
\* pair (key, value) under the context of the tick
RecordedFor(key, value) ==
    {i \in (Len(config_history) + 1)..Len(config_history') :
        /\ config_history'[i].change_source = "user"
        /\ config_history'[i].config_key = key
        /\ config_history'[i].new_value = value
        /\ config_history'[i].context = current_context'}

\* the pair has an identical pair in the snapshot
InSnapshot(snapshot, key, value) ==
    key \in DOMAIN snapshot /\ snapshot[key] = value

(***************************************************************************)
(* C16: on each adaptive tick that has a snapshot to compare with, every   *)
(* key/value pair of the live configuration without an identical pair in   *)
(* the snapshot is recorded exactly once as a change with source 'user'    *)
(* under the current context, the other pairs record nothing, and          *)
(* afterwards the snapshot equals the live configuration.                  *)
(***************************************************************************)
DetectStep ==
    (IsAdaptCompleted /\ has_last_known_config) =>
        /\ \A key \in DOMAIN read_config' :
               Cardinality(RecordedFor(key, read_config'[key])) =
                   IF InSnapshot(last_known_config, key, read_config'[key])
                   THEN 0 ELSE 1
        /\ last_known_config' = read_config'

C16_ChangeDetection == [][DetectStep]_vars

\* the issue keeps its severity in a collection of issue records
SeverityKept(before, after) ==
    \A i \in before, j \in after : i.issue_id = j.issue_id => j.severity = i.severity

(***************************************************************************)
(* C17: the severity of an issue never changes after its creation, in      *)
(* memory or in the store; an issue marked resolved is never back in the   *)
(* active set and never has its resolved flag cleared, a recurrence being  *)
(* a new issue; pruning never deletes an unresolved issue from the store.  *)
(***************************************************************************)
IssueStep ==
    /\ SeverityKept(AllIssues, AllIssues')
    /\ SeverityKept(db_issues, db_issues')
    /\ SeverityKept(AllIssues, db_issues')
    /\ \A i \in Range(resolved_issues) :
           /\ i.resolved
           /\ \A a \in Range(active_issues') : a.issue_id # i.issue_id
           /\ \E j \in Range(resolved_issues') : j.issue_id = i.issue_id /\ j.resolved
    /\ \A a \in Range(active_issues') : ~a.resolved
    /\ \A r \in db_issues :
           /\ r.resolved => \A r2 \in db_issues' : r2.issue_id = r.issue_id => r2.resolved
           /\ ~r.resolved => \E r2 \in db_issues' : r2.issue_id = r.issue_id

SampleWriteFailed == \A r \in db_metrics' : r.timestamp # now

\* a change the adaptive tick detected has no row in the store
ChangeWriteFailed ==
    \E i \in (Len(config_history) + 1)..Len(config_history') :
        /\ config_history'[i].change_source = "user"
        /\ \A k \in 1..Len(db_changes') :
               ~(/\ db_changes'[k].timestamp = config_history'[i].timestamp
                 /\ db_changes'[k].config_key = config_history'[i].config_key)

\* the in-memory state of the healing loop is the one a tick with working
\* writes leaves
HealMemoryAsIfStored ==
    \E m \in HealInputs :
        LET S3 == step_monitor(step_detect(step_collect(HealState, m, now), m, now),
                               now)
        IN  \E oc \in heal_outcomes(S3) :
                LET S == step_heal(S3, oc, now)
                IN  /\ system_metrics_history' = S.hist
                    /\ active_issues' = S.active
                    /\ resolved_issues' = S.resolved
                    /\ healing_history' = S.hh

\* the in-memory state of the adaptive loop is the one a tick with working
\* writes leaves
AdaptMemoryAsIfStored ==
    \E c \in AdaptInputs :
        LET A == astep_cleanup(astep_apply(astep_learn(astep_detect(
                     astep_capture(AdaptState,
                         capture_user_context(c.app, 0, c.hour, anow)),
                     c.current_config, anow), anow), anow), anow)
        IN  /\ c.current_config = read_config'
            /\ current_context' = A.ctx
            /\ last_known_config' = A.last
            /\ config_history' = A.hist
            /\ usage_patterns' = A.patterns
            /\ preference_profiles' = A.profiles
            /\ active_profile' = A.active

(***************************************************************************)
(* C18: in the healing and in the adaptive loop, a tick in which a write   *)
(* to the store fails still runs to its end and leaves the in-memory state *)
(* (active and resolved issues, histories, current context, snapshot,      *)
(* profiles) that the same tick leaves when the write succeeds.            *)
(***************************************************************************)
PersistenceStep ==
    /\ (IsHealStep /\ SampleWriteFailed) =>
           (last_tick' = <<"self_healing", "ok">> /\ HealMemoryAsIfStored)
    /\ (IsAdaptStep /\ ChangeWriteFailed) =>
           (last_tick' = <<"adaptive_config", "ok">> /\ AdaptMemoryAsIfStored)

C18_PersistenceFailure == [][PersistenceStep]_vars

\* the metrics each source delivers and their defaults
SourceMetrics(source) ==
    CASE source = "cpu_percent" -> {"cpu_usage"}
      [] source = "virtual_memory" -> {"memory_usage"}
      [] source = "nvidia_smi" -> {"gpu_usage", "gpu_temperature"}
      [] source = "sensors_temperatures" -> {"cpu_temperature"}
      [] OTHER -> {}

MetricNames == {"cpu_usage", "memory_usage", "gpu_usage", "cpu_temperature",
                "gpu_temperature"}

\* what a reader of the snapshot finds for a metric that is not in it
Absent == -1

(***************************************************************************)
(* C19: when a single metric source fails during a snapshot of the healing *)
(* loop, the snapshot is still produced and appended, the metrics of that  *)
(* source have their default 0 and every other metric has the value its    *)
(* source delivered.                                                       *)
(***************************************************************************)
CollectStep ==
    (IsHealStep /\ probe'.failed # "none") =>
        /\ Len(system_metrics_history') = Len(system_metrics_history) + 1
        /\ LET snapshot == system_metrics_history'[Len(system_metrics_history')]
           IN  \A name \in MetricNames :
                   Get(snapshot, name, Absent) =
                       IF name \in SourceMetrics(probe'.failed) THEN 0
                       ELSE probe'.readings[name]

C19_SourceFailure == [][CollectStep]_vars


(***************************************************************************)
(* C20  Fatal start-up failure: when constructing or starting a loop fails *)
(* during the start-up of the orchestrator, no loop has executed a tick    *)
(* when the failure is reported, and the process ends with a non-zero exit *)
(* status.                                                                 *)
(***************************************************************************)
FailureReported == proc = "starting" /\ proc' = "stopping"

EndsAfterFailure == proc = "stopping" /\ proc' = "exited"

StartupFailureStep ==
    /\ FailureReported => TickCounts' = <<0, 0, 0, 0, 0>>
    /\ EndsAfterFailure => exit_status' \notin {NoExit, 0}

C20_StartupFailure == [][StartupFailureStep]_vars

(***************************************************************************)
(* C21  Every destructive action of the healing loop is executed only on a *)
(* target the source lists as safe, and the compositor restart and the GPU *)
(* driver reload issue no command and always report failure.  The only     *)
(* process names the source lists are the excluded ones; a list of safe    *)
(* targets can admit no other name.                                        *)
(***************************************************************************)
ListedTargets == excluded

Stubs == {"restart_compositor", "restart_gpu_driver"}

TerminatedNow == UNION {heal_effects'[k].terminated : k \in 1..Len(heal_effects')}

StubsInert ==
    /\ \A k \in 1..Len(heal_effects') :
           heal_effects'[k].action_type \in Stubs => heal_effects'[k].commands = <<>>
    /\ \A k \in 1..Len(healing_history') :
           healing_history'[k].action_type \in Stubs => ~healing_history'[k].success

DestructiveStep ==
    /\ TerminatedNow \subseteq ListedTargets
    /\ StubsInert

C21_DestructiveGated == [][DestructiveStep]_vars

(***************************************************************************)
(* C22  Within the healing loop ticks never overlap and none is skipped:   *)
(* the steps of a tick run in their order, a tick begins only when the     *)
(* tick before it has ended, and no tick of another task runs, reads or    *)
(* changes the issue set while a tick of the healing loop is under way.    *)
(***************************************************************************)
MidTick == heal_pc \in {"detect", "monitor", "heal", "cleanup"}

OtherTaskRuns == orch_ticks' # orch_ticks \/ status_ticks' # status_ticks

StepOrder ==
    LET pos(pc) == CHOOSE k \in 1..Len(HealSteps) : HealSteps[k] = pc
    IN  heal_pc' # heal_pc =>
            \/ pos(heal_pc') = pos(heal_pc) + 1
            \/ heal_pc' = "loop" /\ heal_ticks' = heal_ticks + 1

SequentialStep ==
    /\ StepOrder
    /\ heal_ticks' # heal_ticks => (heal_ticks' = heal_ticks + 1 /\ heal_pc' = "loop")
    /\ OtherTaskRuns => (~MidTick /\ UNCHANGED <<active_issues, resolved_issues>>)

HistoryLearnedFrom ==
    SelectSeq(config_history',
              LAMBDA c : ~(c.change_source = "adaptive" /\ c.timestamp = anow))

UserRecords(hist) == SelectSeq(hist, LAMBDA c : c.change_source = "user")

LearnedFromUserRecords ==
    astep_learn([AdaptState EXCEPT !.hist = UserRecords(HistoryLearnedFrom)], anow)

LogOnlyStep ==
    IsAdaptCompleted =>
        /\ last_pass' = LearnedFromUserRecords.pass
        /\ usage_patterns' = LearnedFromUserRecords.patterns
        /\ preference_profiles' = LearnedFromUserRecords.profiles

C23_ChangeLogOnly == [][LogOnlyStep]_vars

(***************************************************************************)
(* C24  The orchestrator goes from stopped to running and back to stopped  *)
(* and never starts again; while it runs it has one task per enabled loop  *)
(* and its two monitoring tasks; once it is stopped no loop runs a tick.   *)
(***************************************************************************)
\* stop_all_systems has run, or start_all_systems has not yet
Stopped == ~running

EnabledLoops == {"ai_optimizer", "adaptive_config", "self_healing"}

LiveTasks == {k \in 1..Len(LoopPcs) : LoopPcs[k] = "loop"}

LifecycleStep ==
    /\ (Stopped /\ ~Stopped') => proc = "starting"
    /\ ~Stopped' => Cardinality(LiveTasks') = Cardinality(EnabledLoops) + 2
    /\ (Stopped /\ proc # "starting") => TickCounts' = TickCounts

C24_Lifecycle == [][LifecycleStep]_vars

(***************************************************************************)
(* C25  Every loop's in-memory history is a bounded ring buffer: it never  *)
(* holds more samples than its capacity, and a sample leaves it only when  *)
(* a new one is appended to the full buffer, the oldest first, so that a   *)
(* tick never removes more samples than it appends.                        *)
(***************************************************************************)
Histories == <<system_metrics_history, metrics_history, config_history>>

\* the capacities the source gives: the two deques have a maxlen,
\* config_history is a list without one
WithinCapacity ==
    /\ Len(system_metrics_history) <= HISTORY_MAXLEN
    /\ Len(metrics_history) <= OPT_HISTORY_MAXLEN

\* H2 is H1 after appends to a ring buffer: what is left of H1 is a suffix
\* of it, and no more samples left than were appended
RingAppend(H1, H2) ==
    \E kept \in 0..Len(H1) :
        /\ Len(H2) >= Len(H1)
        /\ \A j \in 1..kept : H2[j] = H1[Len(H1) - kept + j]

RingBufferStep ==
    /\ WithinCapacity'
    /\ \A k \in 1..Len(Histories) : RingAppend(Histories[k], Histories'[k])

C25_BoundedHistories == [][RingBufferStep]_vars

(***************************************************************************)
(* C26  The retry ceiling survives a restart: after every healing tick the *)
(* resolution_attempts stored for an active issue equals its counter in    *)
(* memory, and over restarts an issue gets no more than 3 healing actions. *)
(***************************************************************************)
AttemptsPersisted ==
    \A k \in 1..Len(active_issues) :
        \E r \in db_issues :
            /\ r.issue_id = active_issues[k].issue_id
            /\ r.resolution_attempts = active_issues[k].resolution_attempts

ActionsStoredFor(id) == {a \in db_actions : a.issue_id = id}

CeilingOverRestarts ==
    \A r \in db_issues : Cardinality(ActionsStoredFor(r.issue_id)) <= MAX_ATTEMPTS_GUARD + 1

C26_RetrySurvivesRestart == AttemptsPersisted /\ CeilingOverRestarts

(***************************************************************************)
(* C27  Within a run, the resolution_attempts of every issue created in it *)
(* equals the number of healing actions in healing_history that carry its  *)
(* id; an issue that is not auto-fixable (the pattern issues) or whose     *)
(* category has no strategy (the temperature issues) keeps the counter 0   *)
(* and has no healing action.                                              *)
(***************************************************************************)
HistoryActionsOf(id) ==
    {k \in 1..Len(healing_history) : healing_history[k].issue_id = id}

PatternKinds == {"cpu_trend", "memory_leak"}

NeverHealed(issue) ==
    \/ ~issue.auto_fixable
    \/ issue.issue_id[1] \in PatternKinds
    \/ healing_strategies(issue.category) = <<>>

C27_AttemptsCountActions ==
    \A issue \in AllIssues :
        /\ issue.resolution_attempts = Cardinality(HistoryActionsOf(issue.issue_id))
        /\ NeverHealed(issue) => HistoryActionsOf(issue.issue_id) = {}

\* a pattern issue and a temperature issue have been active over a tick in
\* which another issue got a healing action
C27_Witness ==
    /\ \E issue \in AllIssues :
           issue.issue_id[1] = "cpu_trend" /\ issue.timestamp < LastTickTime
    /\ \E issue \in AllIssues :
           issue.issue_id[1] = "temp_high" /\ issue.timestamp < LastTickTime
    /\ \E k \in 1..Len(healing_history) : healing_history[k].timestamp = LastTickTime

(***************************************************************************)
(* C28  The orchestrator only reads the healing state: a monitoring tick   *)
(* changes no issue's resolution_attempts or resolved flag and no          *)
(* membership of active_issues, and it runs its emergency response for     *)
(* every active critical issue on every tick, however many healing         *)
(* attempts the issue has had.                                             *)
(***************************************************************************)
HealingStateKept ==
    UNCHANGED <<active_issues, resolved_issues, healing_history, db_issues, db_actions>>

RespondedTo(id) == \E k \in 1..Len(emergency_log') : emergency_log'[k].issue_id = id

OrchReadsOnlyStep ==
    IsOrchStep =>
        /\ HealingStateKept
        /\ \A i \in 1..Len(active_issues) :
               active_issues[i].severity = CRITICAL => RespondedTo(active_issues[i].issue_id)

C28_OrchestratorReadsOnly == [][OrchReadsOnlyStep]_vars

\* the second monitoring tick has responded to an issue that the healing
\* loop no longer acts on, its three attempts being used up
C28_Witness ==
    /\ orch_ticks = 2
    /\ last_tick = <<"orchestrator", "ok">>
    /\ \E i \in 1..Len(active_issues), k \in 1..Len(emergency_log) :
           /\ emergency_log[k].issue_id = active_issues[i].issue_id
           /\ emergency_log[k].commands # <<>>
           /\ active_issues[i].resolution_attempts = MAX_ATTEMPTS_GUARD + 1

(***************************************************************************)
(* The optimization loop alone, on a loaded machine: the last nine samples *)
(* show 90% CPU, so that _should_optimize answers True and every tick      *)
(* applies a configuration; any hyprctl invocation can fail.               *)
(***************************************************************************)
LoadedSamples == [i \in 1..(OPT_MIN_SAMPLES - 1) |-> [cpu_usage |-> 9000, memory_usage |-> 5000]]

InitApply ==
    /\ env = "apply"
    /\ commands = "any"
    /\ HealInit
    /\ AdaptInit
    /\ CliInit
    /\ adapt_pc = "off"
    /\ opt_pc = "loop"
    /\ onow = T0
    /\ opt_ticks = 0
    /\ opt_sleep = 0
    /\ metrics_history = LoadedSamples
    /\ optimization_history = <<>>
    /\ last_optimization = NoneTS
    /\ ApplyInit
    /\ running = TRUE
    /\ proc = "running"
    /\ stop_task = "none"
    /\ orch_pc = "off"
    /\ orch_ticks = 0
    /\ orch_sleep = 0
    /\ optimization_stats = [total_optimizations |-> 0, successful_optimizations |-> 0,
                             failed_optimizations |-> 0, adaptive_changes |-> 0,
                             healing_actions |-> 0]
    /\ status_pc = "off"
    /\ status_ticks = 0
    /\ status_sleep = 0
    /\ last_tick = <<"none", "none">>
    /\ health_data = NoHealthData
    /\ health_score = NoScore
    /\ emergency_log = <<>>
    /\ exit_status = NoExit
    /\ current_task = "none"

NextApply == OptTick \/ OptTickRaise

SpecApply == InitApply /\ [][NextApply]_vars

(***************************************************************************)
(* C29  In the optimizer's applier current_config is replaced by the new   *)
(* configuration only when every hyprctl invocation of the batch           *)
(* succeeded; the first failing invocation leaves current_config as it     *)
(* was, is the last invocation issued, and the settings made by the        *)
(* invocations before it stay in the compositor.                           *)
(***************************************************************************)
BatchApplied == optimization_history' # optimization_history

FailedCalls(calls) == {i \in 1..Len(calls) : ~calls[i].ok}

AllOrNothingStep ==
    BatchApplied =>
        LET new_config == optimization_history'[Len(optimization_history')].config
            calls == hyprctl_calls'
            failed == FailedCalls(calls)
        IN  /\ IF failed = {} /\ Len(calls) = Len(config_lines(new_config))
               THEN opt_current_config' = new_config
               ELSE opt_current_config' = opt_current_config
            /\ failed # {} =>
                  /\ failed = {Len(calls)}
                  /\ Len(calls) <= Len(config_lines(new_config))
                  /\ \A i \in 1..(Len(calls) - 1) :
                         /\ calls[i] = [keyword |-> config_lines(new_config)[i].keyword,
                                        value |-> config_lines(new_config)[i].value,
                                        ok |-> TRUE]
                         /\ hyprland_keywords'[calls[i].keyword] = calls[i].value
                  /\ \A key \in DOMAIN hyprland_keywords :
                         (\A i \in 1..(Len(calls) - 1) : calls[i].keyword # key)
                             => hyprland_keywords'[key] = hyprland_keywords[key]

C29_AllOrNothingConfig == [][AllOrNothingStep]_vars

\* the second batch failed at its second invocation: current_config is
\* still the configuration of the first batch, the compositor has the
\* setting of the first invocation, which differs from that configuration
C29_Witness ==
    /\ Len(optimization_history) = 2
    /\ Len(hyprctl_calls) = 2
    /\ hyprctl_calls[1].ok /\ ~hyprctl_calls[2].ok
    /\ opt_current_config = optimization_history[1].config
    /\ opt_current_config # <<>>
    /\ hyprland_keywords[hyprctl_calls[1].keyword] = hyprctl_calls[1].value
    /\ config_line(opt_current_config[1].k, opt_current_config[1].v).value
           # hyprctl_calls[1].value

(***************************************************************************)
(* C30  In a healing tick whose collection fails as a whole (the snapshot  *)
(* holds a timestamp and an error only) no CPU, memory, temperature or     *)
(* compositor issue is created and no active issue is marked resolved.     *)
(***************************************************************************)
ThresholdKinds == {"cpu_high", "memory_high", "temp_high", "compositor_hang"}

\* the tick appended a snapshot that is an error snapshot
FailedCollectionTick ==
    /\ heal_ticks' = heal_ticks + 1
    /\ Len(system_metrics_history') > Len(system_metrics_history)
    /\ system_metrics_history'[Len(system_metrics_history')].err

ActiveIds(issues) == {issues[i].issue_id : i \in 1..Len(issues)}

FailedCollectionStep ==
    FailedCollectionTick =>
        /\ \A i \in 1..Len(active_issues') :
               active_issues'[i].issue_id[1] \in ThresholdKinds
                   => active_issues'[i].issue_id \in ActiveIds(active_issues)
        /\ \A i \in 1..Len(last_created') :
               last_created'[i].issue_id[1] \notin ThresholdKinds
        /\ \A i \in 1..Len(active_issues) :
               \E j \in 1..Len(active_issues') :
                   /\ active_issues'[j].issue_id = active_issues[i].issue_id
                   /\ ~active_issues'[j].resolved
        /\ resolved_issues' = resolved_issues

C30_FailedCollectionInert == [][FailedCollectionStep]_vars

\* a tick with a failed collection has run while an issue was active, and
\* the issue is still active and unresolved
C30_Witness ==
    /\ heal_ticks >= 2
    /\ last_tick = <<"self_healing", "ok">>
    /\ system_metrics_history # <<>>
    /\ system_metrics_history[Len(system_metrics_history)].err
    /\ \E i \in 1..Len(active_issues) :
           /\ active_issues[i].issue_id[2] < now - monitoring_interval
           /\ ~active_issues[i].resolved

====
